---- MODULE Spec2Model ----
(***************************************************************************)
(* A model of the MapGenerator water / island generation core:             *)
(*   - DiamondSquare            (impl/diamond_square.ts, src/unnamed/part_002)*)
(*   - MarchingSquares          (src/src/ts/impl/marching_squares.ts)      *)
(*   - HeightmapIslandGenerator (src/src/ts/impl/heightmap_island_generator.ts)*)
(*   - SolidLandmassGenerator   (impl/solid_landmass_generator.ts,         *)
(*                               src/unnamed/part_003)                     *)
(*   - WaterGUI, Main           (src/src/ts/ui/water_gui.ts, src/src/main.ts)*)
(*   - WaterGenerator.createCoast, TensorField.onLand (as documented in    *)
(*     src/island.md; their files are not among the sources)               *)
(*   - ModelGenerator           (src/src/ts/model_generator.ts)            *)
(*   - StreamlineGenerator circle joining (as documented in the project    *)
(*     notes, src/unnamed/part_004)                                        *)
(*                                                                         *)
(* Numbers.  The program computes with IEEE doubles.  Elevations are       *)
(* modelled as fixed-point integers: the integer h stands for h / Unit.    *)
(* A division of the code is the integer division of the scaled operands   *)
(* (rounded towards minus infinity).  The 32-bit state of the seeded       *)
(* generator is kept exactly, as a pair <<hi, lo>> of 16-bit halves,       *)
(* because the products of the recurrence do not fit a machine integer of  *)
(* the model checker.                                                      *)
(***************************************************************************)
EXTENDS Integers, Sequences, FiniteSets, TLC

VARIABLES
    ds,      \* heightmap engine: the DiamondSquare instances (their rng closures)
    calls,   \* heightmap engine: the generateHeightmap calls made, in order
    smooth,  \* heightmap engine: params.smoothness, the smoothness callers pass
    post,    \* post-processing and contour extraction of one heightmap:
             \* [stage, hm, input, lo, hi, threshold, smoothing, minLength, out]
    gen      \* the water generator and the tensor field it publishes to:
             \* heightmap-island mode [phase, n, worldScale, i, tries, islands,
             \* fate, sea, allStreamlinesSimple, allStreamlines, gridMajor,
             \* gridMinor, streamlinesMajor, streamlinesMinor, tfIslands, tfSea,
             \* coasts]; solid-landmass mode [phase, landmassType,
             \* primaryLandmass, ..., sea, warned, tfSea, tfLandmasses];
             \* continental mode [phase, tries, raw, coastline, warned];
             \* the API of Main [phase, params, firstGenerate, run, prev, last]

vars == <<ds, calls, smooth, post, gen>>

(***************************************************************************)
(* Bounds of the model.                                                    *)
(***************************************************************************)
\* Elevation resolution: the integer h stands for the elevation h / Unit.
Unit == 1000
\* Sizes passed to generateHeightmap range over MinSize .. MaxSize.
MaxSize == 4
MinSize == 0 - 1

(***************************************************************************)
(* DiamondSquare: the seeded generator                                     *)
(***************************************************************************)
\* state = (state * 1664525 + 1013904223) % 4294967296
LcgA == 1664525
LcgC == 1013904223
Half16 == 2^16

\* A 32-bit state as <<hi, lo>>, hi and lo in 0 .. 65535.
Word32(n) == <<(n \div Half16) % Half16, n % Half16>>

\* One step of the recurrence, exact modulo 2^32.
LcgNext(s) ==
    LET aLo == LcgA % Half16
        aHi == LcgA \div Half16
        cLo == LcgC % Half16
        cHi == LcgC \div Half16
        p   == s[2] * aLo
        t   == (p % Half16) + cLo
    IN  << ( (p \div Half16) + ((s[1] * aLo) % Half16) + ((s[2] * aHi) % Half16)
             + cHi + (t \div Half16) ) % Half16,
           t % Half16 >>

\* rng() of a seeded instance returns state / 4294967296, in [0, 1);
\* randomValue() returns (rng() - 0.5) * 2, in [-1, 1).  In units of 1/Unit.
RandomValue(s) == ((s[1] * 2 * Unit) \div Half16) - Unit

\* n > 0 && (n & (n - 1)) === 0
RECURSIVE BitAnd(_, _)
BitAnd(a, b) ==
    IF a = 0 \/ b = 0 THEN 0
    ELSE (a % 2) * (b % 2) + 2 * BitAnd(a \div 2, b \div 2)

\* Mutant: the n > 0 test dropped.
isPowerOfTwo_NoSign(n) == n >= 0 /\ BitAnd(n, n - 1) = 0

isPowerOfTwo(n) == n > 0 /\ BitAnd(n, n - 1) = 0

(***************************************************************************)
(* DiamondSquare.diamondSquare                                             *)
(* The pass state is a record [map, writes, rng, set, read, scales]: the    *)
(* grid, the number of times each cell was assigned by a diamond or square *)
(* step, the generator state, which cells have been assigned at all, for   *)
(* each cell how many cells its average read and how many of those were    *)
(* still the 0 filler, and the scale each iteration of the loop used.      *)
(***************************************************************************)
\* Cells of the grid in row-major order (x outer, y inner), as the loops visit them.
RowMajor(size) ==
    [i \in 1 .. (size + 1) * (size + 1) |->
        <<(i - 1) \div (size + 1), (i - 1) % (size + 1)>>]

\* for (x = half; x < size; x += step) for (y = half; y < size; y += step)
DiamondCells(size, step) ==
    LET half == step \div 2
        isD(c) == /\ c[1] < size /\ c[2] < size
                  /\ c[1] >= half /\ c[2] >= half
                  /\ (c[1] - half) % step = 0
                  /\ (c[2] - half) % step = 0
    IN  SelectSeq(RowMajor(size), isD)

\* for (x = 0; x <= size; x += half) for (y = (x + half) % step; y <= size; y += step)
SquareCells(size, step) ==
    LET half == step \div 2
        isS(c) == /\ c[1] % half = 0
                  /\ c[2] >= (c[1] + half) % step
                  /\ (c[2] - ((c[1] + half) % step)) % step = 0
    IN  SelectSeq(RowMajor(size), isS)

InGrid(c, size) == c[1] >= 0 /\ c[1] <= size /\ c[2] >= 0 /\ c[2] <= size

RECURSIVE SumSeq(_, _)
SumSeq(s, i) == IF i > Len(s) THEN 0 ELSE s[i] + SumSeq(s, i + 1)

\* The cells getSquareAverage adds up: the axis neighbours at distance half
\* that pass its bounds test.
SquareNeighbors(x, y, half, size) ==
    LET neighbors == << <<x - half, y>>, <<x + half, y>>, <<x, y - half>>, <<x, y + half>> >>
        inb(c) == InGrid(c, size)
    IN  SelectSeq(neighbors, inb)

\* getSquareAverage: the mean of the in-bounds axis neighbours at distance half.
getSquareAverage(map, x, y, half, size) ==
    LET kept == SquareNeighbors(x, y, half, size)
        vals == [i \in 1 .. Len(kept) |-> map[kept[i][1]][kept[i][2]]]
    IN  IF Len(kept) > 0 THEN SumSeq(vals, 1) \div Len(kept) ELSE 0

\* The cells the diamond step adds up: the four diagonal neighbours at distance half.
DiamondNeighbors(x, y, half) ==
    << <<x - half, y - half>>, <<x + half, y - half>>,
       <<x - half, y + half>>, <<x + half, y + half>> >>

\* The diamond average.
DiamondAverage(map, x, y, half) ==
    LET ns   == DiamondNeighbors(x, y, half)
        vals == [i \in 1 .. 4 |-> map[ns[i][1]][ns[i][2]]]
    IN  SumSeq(vals, 1) \div 4

\* map[x][y] = avg + this.randomValue() * scale for one cell.
ApplyCell(st, c, diamond, half, size, scale) ==
    LET x   == c[1]
        y   == c[2]
        avg == IF diamond THEN DiamondAverage(st.map, x, y, half)
               ELSE getSquareAverage(st.map, x, y, half, size)
        r   == LcgNext(st.rng)
        v   == avg + ((RandomValue(r) * scale) \div Unit)
        ns  == IF diamond THEN DiamondNeighbors(x, y, half)
               ELSE SquareNeighbors(x, y, half, size)
        filler == {i \in 1 .. Len(ns) : ~st.set[ns[i][1]][ns[i][2]]}
    IN  [map    |-> [st.map EXCEPT ![x][y] = v],
         writes |-> [st.writes EXCEPT ![x][y] = @ + 1],
         rng    |-> r,
         set    |-> [st.set EXCEPT ![x][y] = TRUE],
         read   |-> [st.read EXCEPT ![x][y] =
                        [count |-> Len(ns), filler |-> Cardinality(filler)]],
         scales |-> st.scales]

\* The cells lo .. hi of one pass, assigned in order (the range is halved to
\* keep the evaluation shallow; the order of the assignments is the loop's).
RECURSIVE ApplyCells(_, _, _, _, _, _, _, _)
ApplyCells(st, cells, lo, hi, diamond, half, size, scale) ==
    IF lo > hi THEN st
    ELSE IF lo = hi THEN ApplyCell(st, cells[lo], diamond, half, size, scale)
    ELSE LET mid   == (lo + hi) \div 2
             first == ApplyCells(st, cells, lo, mid, diamond, half, size, scale)
         IN  \* the test makes the first half's state a value before the second half runs
             IF first = first
             THEN ApplyCells(first, cells, mid + 1, hi, diamond, half, size, scale)
             ELSE first

\* One pass over its cells.
Pass(st, cells, diamond, half, size, scale) ==
    ApplyCells(st, cells, 1, Len(cells), diamond, half, size, scale)

\* Mutant: each iteration runs its square pass before its diamond pass.
RECURSIVE diamondSquare_SquareFirst(_, _, _, _)
diamondSquare_SquareFirst(st, size, step, scale) ==
    IF step > 1
    THEN LET half == step \div 2
             it == [st EXCEPT !.scales = Append(@, scale)]
             q == Pass(it, SquareCells(size, step), FALSE, half, size, scale)
             s == Pass(q, DiamondCells(size, step), TRUE, half, size, scale)
         IN  IF s = s THEN diamondSquare_SquareFirst(s, size, half, scale \div 2) ELSE s
    ELSE st

\* Mutant: the loop stops one level early (step > 2).
RECURSIVE diamondSquare_StopEarly(_, _, _, _)
diamondSquare_StopEarly(st, size, step, scale) ==
    IF step > 2
    THEN LET half == step \div 2
             it == [st EXCEPT !.scales = Append(@, scale)]
             d == Pass(it, DiamondCells(size, step), TRUE, half, size, scale)
             s == Pass(d, SquareCells(size, step), FALSE, half, size, scale)
         IN  \* the test makes the level's state a value before the next level runs
             IF s = s THEN diamondSquare_StopEarly(s, size, half, scale \div 2) ELSE s
    ELSE st

\* while (step > 1) { diamond pass; square pass; step /= 2; scale /= 2 }
RECURSIVE diamondSquare(_, _, _, _)
diamondSquare(st, size, step, scale) ==
    IF step > 1
    THEN LET half == step \div 2
             it == [st EXCEPT !.scales = Append(@, scale)]
             d == Pass(it, DiamondCells(size, step), TRUE, half, size, scale)
             s == Pass(d, SquareCells(size, step), FALSE, half, size, scale)
         IN  \* the test makes the level's state a value before the next level runs
             IF s = s THEN diamondSquare(s, size, half, scale \div 2) ELSE s
    ELSE st

\* The four corner assignments, each with its own randomValue() draw.
SeedCorners(st, size) ==
    LET r1 == LcgNext(st.rng)
        r2 == LcgNext(r1)
        r3 == LcgNext(r2)
        r4 == LcgNext(r3)
        m1 == [st.map EXCEPT ![0][0] = RandomValue(r1)]
        m2 == [m1 EXCEPT ![0][size] = RandomValue(r2)]
        m3 == [m2 EXCEPT ![size][0] = RandomValue(r3)]
        m4 == [m3 EXCEPT ![size][size] = RandomValue(r4)]
        corner(x, y) == x \in {0, size} /\ y \in {0, size}
    IN  [map |-> m4, writes |-> st.writes, rng |-> r4,
         set |-> [x \in 0 .. size |-> [y \in 0 .. size |-> corner(x, y)]],
         read |-> st.read, scales |-> st.scales]

\* generateHeightmap(options) run with generator state rng: the record
\* [ok, map, writes, rng, read, scales]; ok = FALSE stands for the thrown Error.  The seed of
\* the options is not read by the function (only size and smoothness are).
generateHeightmap(rng, size, smoothness) ==
    IF ~isPowerOfTwo(size)
    THEN [ok |-> FALSE, map |-> << >>, writes |-> << >>, rng |-> rng,
          read |-> << >>, scales |-> << >>]
    ELSE LET zero == [x \in 0 .. size |-> [y \in 0 .. size |-> 0]]
             none == [x \in 0 .. size |-> [y \in 0 .. size |->
                        [count |-> 0, filler |-> 0]]]
             st0  == [map |-> zero, writes |-> zero, rng |-> rng,
                      set |-> [x \in 0 .. size |-> [y \in 0 .. size |-> FALSE]],
                      read |-> none, scales |-> << >>]
             st1  == SeedCorners(st0, size)
             st2  == diamondSquare(st1, size, size, smoothness)
         IN  [ok |-> TRUE, map |-> st2.map, writes |-> st2.writes, rng |-> st2.rng,
              read |-> st2.read, scales |-> st2.scales]


(***************************************************************************)
(* DiamondSquare.normalizeHeightmap and DiamondSquare.applyIslandMask      *)
(* A heightmap is a function [0 .. n -> [0 .. m -> Int]], as the grid      *)
(* generateHeightmap returns.                                              *)
(***************************************************************************)
Max2(a, b) == IF a >= b THEN a ELSE b
Min2(a, b) == IF a <= b THEN a ELSE b

\* heightmap.length
GridLen(hm) == Cardinality(DOMAIN hm)

CellValues(hm) == {hm[x][y] : x \in DOMAIN hm, y \in DOMAIN hm[0]}
MaxOf(S) == CHOOSE v \in S : \A w \in S : w <= v
MinOf(S) == CHOOSE v \in S : \A w \in S : v <= w

\* Mutant: the offset min is not added back.
normalizeHeightmap_NoOffset(heightmap, min, max) ==
    LET minVal == MinOf(CellValues(heightmap))
        maxVal == MaxOf(CellValues(heightmap))
        range  == maxVal - minVal
        targetRange == max - min
    IN  IF range = 0 THEN heightmap
        ELSE [x \in DOMAIN heightmap |-> [y \in DOMAIN heightmap[x] |->
                ((((heightmap[x][y] - minVal) * Unit) \div range) * targetRange) \div Unit]]

\* normalized = ((h - minVal) / range) * targetRange + min; the input itself
\* is returned when range === 0.
normalizeHeightmap(heightmap, min, max) ==
    LET minVal == MinOf(CellValues(heightmap))
        maxVal == MaxOf(CellValues(heightmap))
        range  == maxVal - minVal
        targetRange == max - min
    IN  IF range = 0 THEN heightmap
        ELSE [x \in DOMAIN heightmap |-> [y \in DOMAIN heightmap[x] |->
                (((((heightmap[x][y] - minVal) * Unit) \div range) * targetRange) \div Unit)
                + min]]

\* Math.sqrt on a non-negative integer, rounded down.
RECURSIVE ISqrtIn(_, _, _)
ISqrtIn(n, lo, hi) ==
    IF lo >= hi THEN lo
    ELSE LET mid == (lo + hi + 1) \div 2
         IN  IF mid * mid <= n THEN ISqrtIn(n, mid, hi) ELSE ISqrtIn(n, lo, mid - 1)
ISqrt(n) == ISqrtIn(n, 0, Min2(n, 46340))

\* Math.pow(z, k) for a fixed-point base z and a whole exponent k.
RECURSIVE PowFix(_, _)
PowFix(z, k) == IF k = 0 THEN Unit ELSE (z * PowFix(z, k - 1)) \div Unit

\* normalizedDistance = sqrt(dx*dx + dy*dy) / (center * 0.9), center = size / 2,
\* in units of 1/Unit; computed on the doubled offsets 2x - size, 2y - size.
\* For size = 0 the quotient is NaN, which fails both comparisons: it is
\* returned as a value beyond 1.
NormalizedDistance(x, y, size) ==
    IF size = 0 THEN 2 * Unit
    ELSE LET dx2 == 2 * x - size
             dy2 == 2 * y - size
         IN  (ISqrt((dx2 * dx2 + dy2 * dy2) * Unit * Unit) * 10) \div (9 * size)

MaskedHeight(h, nd, falloffFactor) ==
    IF nd <= (7 * Unit) \div 10
    THEN (6 * Unit) \div 10 + Max2(0, (h * 4) \div 10)
    ELSE IF nd <= Unit
    THEN LET falloffZone == ((nd - (7 * Unit) \div 10) * 10) \div 3
             falloffMultiplier == Max2(0, Unit - PowFix(falloffZone, falloffFactor))
             baseHeight == (6 * falloffMultiplier) \div 10
             terrainVariation == (h * 3 * falloffMultiplier) \div (10 * Unit)
         IN  baseHeight + Max2(0, terrainVariation)
    ELSE 0 - (Unit \div 2)

applyIslandMask(heightmap, falloffFactor) ==
    LET size == GridLen(heightmap) - 1
    IN  [x \in DOMAIN heightmap |-> [y \in DOMAIN heightmap[x] |->
            MaskedHeight(heightmap[x][y], NormalizedDistance(x, y, size), falloffFactor)]]

(***************************************************************************)
(* MarchingSquares                                                         *)
(* A Vector is a pair <<x, y>> in units of 1/PointScale of a grid cell, so *)
(* that the edge midpoints (0.5) and the smoothed vertices (multiples of   *)
(* 0.125) are whole numbers.  A LineSegment is a record [start, end].      *)
(***************************************************************************)
PointScale == 2 * 2 * 2

\* The point (x2 / 2, y2 / 2) of the unit cell.
HalfPoint(x2, y2) == <<x2 * (PointScale \div 2), y2 * (PointScale \div 2)>>

Seg(p, q) == [start |-> p, end |-> q]

\* EDGE_TABLE[config], config = 0 .. 15 (row config + 1 of the tuple).
EdgeTableRows ==
    << << >>,                                                        \* 0000
       << Seg(HalfPoint(0, 1), HalfPoint(1, 0)) >>,                  \* 0001
       << Seg(HalfPoint(1, 0), HalfPoint(2, 1)) >>,                  \* 0010
       << Seg(HalfPoint(0, 1), HalfPoint(2, 1)) >>,                  \* 0011
       << Seg(HalfPoint(2, 1), HalfPoint(1, 2)) >>,                  \* 0100
       << Seg(HalfPoint(0, 1), HalfPoint(1, 0)),
          Seg(HalfPoint(2, 1), HalfPoint(1, 2)) >>,                  \* 0101
       << Seg(HalfPoint(1, 0), HalfPoint(1, 2)) >>,                  \* 0110
       << Seg(HalfPoint(0, 1), HalfPoint(1, 2)) >>,                  \* 0111
       << Seg(HalfPoint(1, 2), HalfPoint(0, 1)) >>,                  \* 1000
       << Seg(HalfPoint(1, 0), HalfPoint(1, 2)) >>,                  \* 1001
       << Seg(HalfPoint(1, 2), HalfPoint(0, 1)),
          Seg(HalfPoint(1, 0), HalfPoint(2, 1)) >>,                  \* 1010
       << Seg(HalfPoint(1, 0), HalfPoint(2, 1)) >>,                  \* 1011
       << Seg(HalfPoint(2, 1), HalfPoint(0, 1)) >>,                  \* 1100
       << Seg(HalfPoint(1, 0), HalfPoint(2, 1)) >>,                  \* 1101
       << Seg(HalfPoint(0, 1), HalfPoint(1, 0)) >>,                  \* 1110
       << >> >>                                                      \* 1111

EDGE_TABLE(config) == EdgeTableRows[config + 1]

\* config |= 1, 2, 4, 8 for the corners (x,y), (x+1,y), (x+1,y+1), (x,y+1)
\* that are >= threshold.
getGridConfiguration(heightmap, x, y, threshold) ==
      (IF heightmap[x][y] >= threshold THEN 1 ELSE 0)
    + (IF heightmap[x + 1][y] >= threshold THEN 2 ELSE 0)
    + (IF heightmap[x + 1][y + 1] >= threshold THEN 4 ELSE 0)
    + (IF heightmap[x][y + 1] >= threshold THEN 8 ELSE 0)

\* The segments of cell (x, y): the table's edges moved to the cell.
CellSegments(heightmap, x, y, threshold) ==
    LET edgeSegments == EDGE_TABLE(getGridConfiguration(heightmap, x, y, threshold))
    IN  [i \in 1 .. Len(edgeSegments) |->
            Seg(<<x * PointScale + edgeSegments[i].start[1],
                  y * PointScale + edgeSegments[i].start[2]>>,
                <<x * PointScale + edgeSegments[i].end[1],
                  y * PointScale + edgeSegments[i].end[2]>>)]

\* for x in 0 .. width-1, for y in 0 .. height-1: the segments of the cells
\* lo .. hi, cell k = x * height + y, in that order.
RECURSIVE SegmentsFrom(_, _, _, _, _)
SegmentsFrom(heightmap, threshold, lo, hi, height) ==
    IF lo > hi THEN << >>
    ELSE IF lo = hi
    THEN CellSegments(heightmap, lo \div height, lo % height, threshold)
    ELSE LET mid == (lo + hi) \div 2
         IN  SegmentsFrom(heightmap, threshold, lo, mid, height)
             \o SegmentsFrom(heightmap, threshold, mid + 1, hi, height)

extractSegments(heightmap, threshold) ==
    LET width  == GridLen(heightmap) - 1
        height == GridLen(heightmap[0]) - 1
    IN  SegmentsFrom(heightmap, threshold, 0, width * height - 1, height)

DistSq(p, q) == (p[1] - q[1]) * (p[1] - q[1]) + (p[2] - q[2]) * (p[2] - q[2])

\* p.distanceTo(q) < hundredths / 100, for points in units of 1/PointScale.
Closer(p, q, hundredths) ==
    100 * 100 * DistSq(p, q) < (hundredths * PointScale) * (hundredths * PointScale)

\* const epsilon = 0.01, in hundredths
Epsilon == 1

\* One iteration of the while loop of buildContour on the walk state
\* [contour, used, current, found]: append the far end of the first unused
\* segment (lowest index) that has an end within epsilon of current;
\* found = FALSE ends the loop.
WalkStep(segments, w) ==
    LET cand == {i \in 1 .. Len(segments) :
                    /\ i \notin w.used
                    /\ \/ Closer(w.current, segments[i].start, Epsilon)
                       \/ Closer(w.current, segments[i].end, Epsilon)}
    IN  IF cand = {} THEN [w EXCEPT !.found = FALSE]
        ELSE LET i == MinOf(cand)
                 far == IF Closer(w.current, segments[i].start, Epsilon)
                        THEN segments[i].end ELSE segments[i].start
             IN  [contour |-> Append(w.contour, far), used |-> w.used \cup {i},
                  current |-> far, found |-> TRUE]

\* At most n iterations of the loop (every iteration uses up one segment, so
\* Len(segments) iterations run it to its end).  The iterations are split in
\* halves to keep the evaluation shallow; their order is the loop's.
RECURSIVE WalkContour(_, _, _)
WalkContour(segments, w, n) ==
    IF ~w.found \/ n <= 0 THEN w
    ELSE IF n = 1 THEN WalkStep(segments, w)
    ELSE LET first == WalkContour(segments, w, n \div 2)
         IN  IF first.found THEN WalkContour(segments, first, n - (n \div 2))
             ELSE first

\* Mutant: the contour is closed when its ends are within 2 cells.
buildContour_WideClose(segments, startIndex, used) ==
    LET w == WalkContour(segments,
                         [contour |-> <<segments[startIndex].start, segments[startIndex].end>>,
                          used    |-> used \cup {startIndex},
                          current |-> segments[startIndex].end,
                          found   |-> TRUE],
                         Len(segments))
        c == w.contour
    IN  [contour |-> IF Len(c) > 2 /\ Closer(c[1], c[Len(c)], Epsilon * 200)
                     THEN Append(c, c[1]) ELSE c,
         used |-> w.used]

\* buildContour(segments, startIndex, used): [contour, used]
buildContour(segments, startIndex, used) ==
    LET w == WalkContour(segments,
                         [contour |-> <<segments[startIndex].start, segments[startIndex].end>>,
                          used    |-> used \cup {startIndex},
                          current |-> segments[startIndex].end,
                          found   |-> TRUE],
                         Len(segments))
        c == w.contour
    IN  [contour |-> IF Len(c) > 2 /\ Closer(c[1], c[Len(c)], Epsilon * 5)
                     THEN Append(c, c[1]) ELSE c,
         used |-> w.used]

\* The body of the for loop of connectSegments for index i on the state
\* [contours, used].
ConnectStep(segments, i, st) ==
    IF i \in st.used THEN st
    ELSE LET b == buildContour(segments, i, st.used)
         IN  [contours |-> IF Len(b.contour) > 0 THEN Append(st.contours, b.contour)
                           ELSE st.contours,
              used |-> b.used]

\* The for loop over the indices lo .. hi, in order (the range is halved to
\* keep the evaluation shallow).
RECURSIVE ConnectFrom(_, _, _, _)
ConnectFrom(segments, lo, hi, st) ==
    IF lo > hi THEN st
    ELSE IF lo = hi THEN ConnectStep(segments, lo, st)
    ELSE LET mid   == (lo + hi) \div 2
             first == ConnectFrom(segments, lo, mid, st)
         IN  IF first.used \subseteq 1 .. Len(segments)
             THEN ConnectFrom(segments, mid + 1, hi, first)
             ELSE first

connectSegments(segments) ==
    ConnectFrom(segments, 1, Len(segments), [contours |-> << >>, used |-> {}]).contours

\* curr * (1 - alpha) + (prev + next) * alpha * 0.5 with alpha = 0.5; the
\* first and last points are kept.
smoothContour(contour) ==
    IF Len(contour) < 3 THEN contour
    ELSE [i \in 1 .. Len(contour) |->
            IF i = 1 \/ i = Len(contour) THEN contour[i]
            ELSE << contour[i][1] \div 2 + (contour[i - 1][1] + contour[i + 1][1]) \div 4,
                    contour[i][2] \div 2 + (contour[i - 1][2] + contour[i + 1][2]) \div 4 >>]

\* Mutant: contours one point short of minLength are kept (>= minLength - 1).
extractContours_OffByOne(heightmap, threshold, smoothing, minLength) ==
    LET contours == connectSegments(extractSegments(heightmap, threshold))
        keep(c) == Len(c) >= minLength - 1
        filteredContours == SelectSeq(contours, keep)
    IN  IF smoothing
        THEN [i \in 1 .. Len(filteredContours) |-> smoothContour(filteredContours[i])]
        ELSE filteredContours

\* extractContours(heightmap, {threshold, smoothing, minLength})
extractContours(heightmap, threshold, smoothing, minLength) ==
    LET contours == connectSegments(extractSegments(heightmap, threshold))
        keep(c) == Len(c) >= minLength
        filteredContours == SelectSeq(contours, keep)
    IN  IF smoothing
        THEN [i \in 1 .. Len(filteredContours) |-> smoothContour(filteredContours[i])]
        ELSE filteredContours

Abs(n) == IF n < 0 THEN 0 - n ELSE n

\* The sum over i in lo .. hi of p[i].x * p[i+1].y - p[i+1].x * p[i].y
RECURSIVE Shoelace(_, _, _)
Shoelace(contour, lo, hi) ==
    IF lo > hi THEN 0
    ELSE IF lo = hi
    THEN contour[lo][1] * contour[lo + 1][2] - contour[lo + 1][1] * contour[lo][2]
    ELSE LET mid == (lo + hi) \div 2
         IN  Shoelace(contour, lo, mid) + Shoelace(contour, mid + 1, hi)

\* calculateContourArea, as twice the area in squared units of 1/PointScale
\* (the halving and the unit do not change which contour is the largest).
\* The closing term is added when first and last are more than 0.1 apart.
calculateContourArea(contour) ==
    IF Len(contour) < 3 THEN 0
    ELSE LET n == Len(contour)
             open == 100 * 100 * DistSq(contour[1], contour[n])
                        > (10 * PointScale) * (10 * PointScale)
         IN  Abs(Shoelace(contour, 1, n - 1)
                 + (IF open THEN contour[n][1] * contour[1][2]
                                  - contour[1][1] * contour[n][2]
                    ELSE 0))

\* Mutant: the loop never replaces the first contour.
BestContour_First(contours, i, best) == best

\* The loop of extractCoastline: the first contour of strictly largest area.
RECURSIVE BestContour(_, _, _)
BestContour(contours, i, best) ==
    IF i > Len(contours) THEN best
    ELSE IF calculateContourArea(contours[i]) > calculateContourArea(best)
    THEN BestContour(contours, i + 1, contours[i])
    ELSE BestContour(contours, i + 1, best)

\* minLength of extractCoastline, and the default of extractContours
CoastMinLength == 20
DefaultMinLength == 5

extractCoastline(heightmap, threshold) ==
    LET contours == extractContours(heightmap, threshold, TRUE, CoastMinLength)
    IN  IF Len(contours) = 0 THEN << >>
        ELSE BestContour(contours, 2, contours[1])

(***************************************************************************)
(* Specification Spec: the heightmap engine.                               *)
(* Two DiamondSquare instances are constructed, with or without a seed,    *)
(* and generateHeightmap is called on them.                                *)
(***************************************************************************)
Instances == {1, 2}
\* Seeds handed to the constructor or put in the options (islandIndex * 1337).
Seeds == {0, 1337}
\* smoothness, in units of 1/Unit: 0.5 and 1.0
Smoothnesses == {Unit \div 2, Unit}
Sizes == MinSize .. MaxSize
\* Hidden states of the engine's Math.random at the time of a call.
MathRandomStates == {Word32(12345), Word32(777)}

\* The seed left undefined.
NoSeed == 0 - 1
NotMade == [made |-> FALSE, seed |-> NoSeed, state |-> Word32(0)]

\* constructor(seed?): rng = seed !== undefined ? seededRandom(seed) : Math.random
Construct(i, seed) ==
    /\ ~ds[i].made
    /\ ds' = [ds EXCEPT ![i] = [made |-> TRUE, seed |-> seed,
                                 state |-> IF seed = NoSeed THEN Word32(0)
                                           ELSE Word32(seed)]]
    /\ UNCHANGED <<calls, smooth, post, gen>>

\* generateHeightmap(options) on instance i.  A seeded instance draws from its
\* closure state, which the call advances and leaves advanced; an unseeded one
\* draws from Math.random, whose hidden state e is whatever it is at that time.
GenerateHeightmap(i, size, smoothness, optSeed) ==
    /\ ds[i].made
    /\ UNCHANGED <<smooth, post, gen>>
    /\ Len(calls) < 2    \* the pair of calls under comparison
    /\ \E e \in MathRandomStates :
         LET rng == IF ds[i].seed = NoSeed THEN e ELSE ds[i].state
             r   == generateHeightmap(rng, size, smoothness)
         IN  /\ ds' = IF ds[i].seed = NoSeed THEN ds
                      ELSE [ds EXCEPT ![i].state = r.rng]
             /\ calls' = Append(calls,
                    [inst |-> i, ctorSeed |-> ds[i].seed, size |-> size,
                     smoothness |-> smoothness, seed |-> optSeed,
                     rngBefore |-> rng, ok |-> r.ok, map |-> r.map,
                     writes |-> r.writes, read |-> r.read, scales |-> r.scales])

\* No generation cycle has run.
GenIdle == [phase |-> "idle"]

\* No heightmap is being post-processed.
PostIdle == [stage |-> "idle", profile |-> "none",
             hm |-> << >>, input |-> << >>, lo |-> 0, hi |-> 0,
             threshold |-> 0, smoothing |-> FALSE, minLength |-> 0, out |-> << >>]

EngineInit ==
    /\ ds = [i \in Instances |-> NotMade]
    /\ calls = << >>
    /\ smooth \in Smoothnesses
    /\ post = PostIdle
    /\ gen = GenIdle

EngineNext ==
    \/ \E i \in Instances, seed \in Seeds \cup {NoSeed} : Construct(i, seed)
    \/ \E i \in Instances, size \in Sizes, optSeed \in {NoSeed, 1337} :
          GenerateHeightmap(i, size, smooth, optSeed)

Spec == EngineInit /\ [][EngineNext]_vars


(***************************************************************************)
(* Specification SpecGrid: normalizeHeightmap and extractContours applied  *)
(* to arbitrary heightmaps of GridN x GridN cells.                         *)
(***************************************************************************)
\* Side of the heightmaps given to SpecGrid.
GridN == 3

Bits == [0 .. GridN - 1 -> {0, 1}]

\* The heightmaps: plateaus (and), checkerboards (xor), four-level ramps (sum).
TestGrids ==
    {[x \in 0 .. GridN - 1 |-> [y \in 0 .. GridN - 1 |-> Unit * a[x] * b[y]]]
        : a \in Bits, b \in Bits}
    \cup
    {[x \in 0 .. GridN - 1 |-> [y \in 0 .. GridN - 1 |-> Unit * ((a[x] + b[y]) % 2)]]
        : a \in Bits, b \in Bits}
    \cup
    {[x \in 0 .. GridN - 1 |-> [y \in 0 .. GridN - 1 |->
            (a[x] + 2 * b[y] - 1) * (Unit \div 2)]]
        : a \in Bits, b \in Bits}

Thresholds == {0, Unit \div 2}
MinLengths == {3, DefaultMinLength, CoastMinLength}
EngineQuiet == ds = [i \in Instances |-> NotMade] /\ calls = << >>

GridInit ==
    /\ EngineQuiet
    /\ smooth \in {Unit \div 2}
    /\ \E g \in TestGrids : post = [PostIdle EXCEPT !.stage = "raw", !.hm = g]
    /\ gen = GenIdle

\* normalizeHeightmap(hm, lo, hi)
GNormalize(lo, hi) ==
    /\ post.stage = "raw"
    /\ post' = [post EXCEPT !.stage = "normalized", !.input = post.hm,
                            !.lo = lo, !.hi = hi,
                            !.hm = normalizeHeightmap(post.hm, lo, hi)]
    /\ UNCHANGED <<ds, calls, smooth, gen>>

\* extractContours(hm, {threshold, smoothing, minLength})
GExtractContours(threshold, smoothing, minLength) ==
    /\ post.stage \in {"raw", "normalized"}
    /\ post' = [post EXCEPT !.stage = "contours", !.threshold = threshold,
                            !.smoothing = smoothing, !.minLength = minLength,
                            !.out = extractContours(post.hm, threshold, smoothing, minLength)]
    /\ UNCHANGED <<ds, calls, smooth, gen>>

GridNext ==
    \/ \E r \in {<<0, Unit>>, <<0 - Unit, Unit>>} : GNormalize(r[1], r[2])
    \/ \E t \in Thresholds, sm \in BOOLEAN, L \in MinLengths : GExtractContours(t, sm, L)

SpecGrid == GridInit /\ [][GridNext]_vars

(***************************************************************************)
(* HeightmapIslandGenerator.applyVolcanicProfile and applyAtollProfile.    *)
(* Heights and ratios are in units of 1/Unit; angles are multiples of 1/32 *)
(* of a turn, cosines in thousandths.                                      *)
(***************************************************************************)
\* 1000 * cos(k * 11.25 degrees), k = 0 .. 8
CosQuarter == <<1000, 981, 924, 831, 707, 556, 383, 195, 0>>

Cos32(k) ==
    LET j == k % 32
    IN  IF j <= 8 THEN CosQuarter[j + 1]
        ELSE IF j <= 16 THEN 0 - CosQuarter[16 - j + 1]
        ELSE IF j <= 24 THEN 0 - CosQuarter[j - 16 + 1]
        ELSE CosQuarter[32 - j + 1]

Sin32(k) == Cos32(k + 24)

\* Twice the distance of cell (x, y) from the centre (size / 2, size / 2), in
\* units of 1/Unit.
Distance2(x, y, size) ==
    LET dx2 == 2 * x - size
        dy2 == 2 * y - size
    IN  ISqrt((dx2 * dx2 + dy2 * dy2) * Unit * Unit)

\* modified = h + pow(1 - min(1, distance / (center * 0.8)), 1.5) * 0.8
applyVolcanicProfile(heightmap) ==
    LET size == GridLen(heightmap) - 1
        volcanoHeight(x, y) ==
            LET normalizedDistance == Min2(Unit, (Distance2(x, y, size) * 10) \div (8 * size))
                z == Unit - normalizedDistance
            IN  (((z * ISqrt(z * Unit)) \div Unit) * 8) \div 10
    IN  [x \in DOMAIN heightmap |-> [y \in DOMAIN heightmap[x] |->
            heightmap[x][y] + volcanoHeight(x, y)]]

\* Between innerRadius = center * 0.3 and outerRadius = center * 0.8 the ring
\* is raised by sin(ringPosition * PI) * 0.4; inside innerRadius the lagoon
\* is lowered by (1 - distance / innerRadius) * 0.5; the sine is read from the
\* table at the nearest 1/16 of ringPosition.
applyAtollProfile(heightmap) ==
    LET size == GridLen(heightmap) - 1
        heightModification(x, y) ==
            LET d2 == Distance2(x, y, size)
                inner2 == 3 * size * Unit
                outer2 == 8 * size * Unit
            IN  IF 10 * d2 >= inner2 /\ 10 * d2 <= outer2
                THEN LET ringPosition == ((10 * d2 - inner2) * Unit) \div (outer2 - inner2)
                         sine == (Sin32((16 * ringPosition + Unit \div 2) \div Unit) * Unit)
                                     \div 1000
                     IN  (sine * 4) \div 10
                ELSE IF 10 * d2 < inner2
                THEN LET lagoonDepth == (Unit - (10 * d2 * Unit) \div inner2) \div 2
                     IN  0 - lagoonDepth
                ELSE 0
    IN  [x \in DOMAIN heightmap |-> [y \in DOMAIN heightmap[x] |->
            heightmap[x][y] + heightModification(x, y)]]

(***************************************************************************)
(* Specification SpecPipe: the heightmap pipeline of one island,           *)
(* generateHeightmap, the profile of the mode (volcanic, atoll or none),   *)
(* applyIslandMask, normalizeHeightmap(-1, 1),                             *)
(* extractCoastline(seaLevel), as createSingleHeightmapIsland runs it.     *)
(***************************************************************************)
PipeSizes == {8, 16}
FalloffFactors == {2, 3}
SeaLevels == {0, Unit \div 5}

\* Heightmaps given to extractCoastline directly: two square blocks of land
\* (1) of a and b points a side (none for 0) in a sea (-1), the first at the
\* lower x, one row of sea around and between them.
MaxBlock == 6
TwoBlocks(a, b) ==
    [x \in 0 .. 2 * MaxBlock + 2 |-> [y \in 0 .. MaxBlock + 1 |->
        IF \/ x \in 1 .. a /\ y \in 1 .. a
           \/ x \in MaxBlock + 2 .. MaxBlock + 1 + b /\ y \in 1 .. b
        THEN Unit ELSE 0 - Unit]]
CoastGrids == {TwoBlocks(a, b) : a, b \in 0 .. MaxBlock}

PipeInit ==
    /\ EngineQuiet
    /\ smooth \in Smoothnesses
    /\ post = PostIdle
    /\ gen = GenIdle

\* The call is logged as the engine's calls are: the generator of an island is
\* built without a seed and the options carry one (islandIndex * 1337).
PGenerate(rng, size) ==
    /\ post.stage = "idle"
    /\ LET r == generateHeightmap(rng, size, smooth)
       IN  /\ post' = [post EXCEPT !.stage = "raw", !.hm = r.map]
           /\ calls' = Append(calls,
                  [inst |-> 1, ctorSeed |-> NoSeed, size |-> size,
                   smoothness |-> smooth, seed |-> 1337,
                   rngBefore |-> rng, ok |-> r.ok, map |-> r.map,
                   writes |-> r.writes, read |-> r.read, scales |-> r.scales])
    /\ UNCHANGED <<ds, smooth, gen>>

\* if (params.volcanoMode) applyVolcanicProfile else if (params.atolloMode)
\* applyAtollProfile
PProfile(volcanoMode, atolloMode) ==
    /\ post.stage = "raw"
    /\ post.profile = "none"
    /\ volcanoMode \/ atolloMode
    /\ post' = IF volcanoMode
               THEN [post EXCEPT !.profile = "volcanic",
                                 !.hm = applyVolcanicProfile(post.hm)]
               ELSE [post EXCEPT !.profile = "atoll",
                                 !.hm = applyAtollProfile(post.hm)]
    /\ UNCHANGED <<ds, calls, smooth, gen>>

PMask(falloffFactor) ==
    /\ post.stage = "raw"
    /\ post' = [post EXCEPT !.stage = "masked",
                            !.hm = applyIslandMask(post.hm, falloffFactor)]
    /\ UNCHANGED <<ds, calls, smooth, gen>>

PNormalize ==
    /\ post.stage = "masked"
    /\ post' = [post EXCEPT !.stage = "normalized", !.input = post.hm,
                            !.lo = 0 - Unit, !.hi = Unit,
                            !.hm = normalizeHeightmap(post.hm, 0 - Unit, Unit)]
    /\ UNCHANGED <<ds, calls, smooth, gen>>

\* A heightmap given as it is to extractCoastline (post.lo = post.hi: it did
\* not go through normalizeHeightmap).
PLoad(heightmap) ==
    /\ post.stage = "idle"
    /\ post' = [post EXCEPT !.stage = "given", !.hm = heightmap]
    /\ UNCHANGED <<ds, calls, smooth, gen>>

PExtractCoastline(seaLevel) ==
    /\ post.stage \in {"normalized", "given"}
    /\ post' = [post EXCEPT !.stage = "coast", !.threshold = seaLevel,
                            !.smoothing = TRUE, !.minLength = CoastMinLength,
                            !.out = extractCoastline(post.hm, seaLevel)]
    /\ UNCHANGED <<ds, calls, smooth, gen>>

PipeNext ==
    \/ \E rng \in MathRandomStates \cup {Word32(sd) : sd \in Seeds}, size \in PipeSizes :
          PGenerate(rng, size)
    \/ \E volcanoMode, atolloMode \in BOOLEAN : PProfile(volcanoMode, atolloMode)
    \/ \E k \in FalloffFactors : PMask(k)
    \/ PNormalize
    \/ \E heightmap \in CoastGrids : PLoad(heightmap)
    \/ \E sl \in SeaLevels : PExtractCoastline(sl)

SpecPipe == PipeInit /\ [][PipeNext]_vars

(***************************************************************************)
(* Specification SpecIsland: HeightmapIslandGenerator.createCoast in       *)
(* heightmap-island mode, and the land test of the tensor field it feeds;  *)
(* SolidLandmassGenerator.createCoast in solid-landmass mode.              *)
(* World coordinates are whole world units.  The island heightmaps have    *)
(* IslandSize cells a side; worldScale is the default 2.0 of a 256-cell    *)
(* heightmap carried over to that size, so that an island covers the same  *)
(* extent of the world.                                                    *)
(***************************************************************************)
\* const attempts = 50; const minDistance = 800
Attempts == 50
MinDistance == 800

\* numIslands ranges over 1 .. MaxIslands.
MaxIslands == 3
\* Candidate centres origin + Math.random() * worldDimensions are drawn at
\* multiples of CandidateStep; the world is 3 x 3 of them, its origin (0, 0).
CandidateStep == 400
WorldDim == 3 * CandidateStep
Candidates == {<<x * CandidateStep, y * CandidateStep>> : x, y \in 0 .. 2}

IslandSize == 2^4
WorldScale == 2 * (256 \div IslandSize)
\* params.heightmapIslands.worldScale: the default, or a scale at which an
\* island is too small to be valid.
WorldScales == {WorldScale, 1}

\* createFullWorldSea
createFullWorldSea ==
    << <<0, 0>>, <<WorldDim, 0>>, <<WorldDim, WorldDim>>, <<0, WorldDim>> >>

\* MarchingSquares.heightmapToWorld: center + (point - heightmapSize / 2) * worldScale,
\* for contour points in units of 1/PointScale.
heightmapToWorld(heightmapPoints, center, heightmapSize, worldScale) ==
    [k \in 1 .. Len(heightmapPoints) |->
        << center[1] + ((heightmapPoints[k][1] - (heightmapSize * PointScale) \div 2)
                            * worldScale) \div PointScale,
           center[2] + ((heightmapPoints[k][2] - (heightmapSize * PointScale) \div 2)
                            * worldScale) \div PointScale >>]

\* calculatePolygonArea, doubled: the sum over i of p[i].x * p[j].y - p[j].x * p[i].y,
\* j = (i + 1) % length.
calculatePolygonArea(polygon) ==
    IF Len(polygon) < 3 THEN 0
    ELSE LET n == Len(polygon)
         IN  Abs(Shoelace(polygon, 1, n - 1)
                 + polygon[n][1] * polygon[1][2] - polygon[1][1] * polygon[n][2])

\* Mutant: the area is not looked at.
isValidIsland_AnyArea(island) == Len(island.coastline) >= 10

\* isValidIsland: at least 10 coastline points and an area above 1000.
isValidIsland(island) ==
    /\ Len(island.coastline) >= 10
    /\ calculatePolygonArea(island.coastline) > 2 * 1000

\* The coastline createSingleHeightmapIsland extracts when Math.random is in
\* state e at the call of generateHeightmap (the seed of the options has no
\* effect, and smoothness 0.5, falloffFactor 2, seaLevel 0 are the defaults).
\* The table is computed once, in IslandInit, and kept in gen.coasts.
IslandCoastlines ==
    { <<e, extractCoastline(
               normalizeHeightmap(
                   applyIslandMask(generateHeightmap(e, IslandSize, Unit \div 2).map, 2),
                   0 - Unit, Unit),
               0)>> : e \in MathRandomStates }

CoastlineFor(e) == (CHOOSE t \in gen.coasts : t[1] = e)[2]

\* Mutant: the candidate is compared with the latest island only.
validPosition_LastOnly(candidate, islands) ==
    \/ Len(islands) = 0
    \/ ~(DistSq(candidate, islands[Len(islands)].center) < MinDistance * MinDistance)

\* generateIslandCenter: validPosition of a candidate, no existing island
\* being at a distance < minDistance.
validPosition(candidate, islands) ==
    \A k \in 1 .. Len(islands) :
        ~(DistSq(candidate, islands[k].center) < MinDistance * MinDistance)

\* params.simplifyTolerance and params.dstep of the coastline streamlines, in
\* world units.
SimplifyTolerance == 10
Dstep == 20

\* simplifyStreamline: the first point, every point farther than the
\* tolerance from the point kept before it, and the last point.
RECURSIVE SimplifyFrom(_, _, _)
SimplifyFrom(streamline, i, kept) ==
    IF i > Len(streamline)
    THEN IF kept[Len(kept)] = streamline[Len(streamline)] THEN kept
         ELSE Append(kept, streamline[Len(streamline)])
    ELSE IF DistSq(streamline[i], kept[Len(kept)]) > SimplifyTolerance * SimplifyTolerance
    THEN SimplifyFrom(streamline, i + 1, Append(kept, streamline[i]))
    ELSE SimplifyFrom(streamline, i + 1, kept)

simplifyStreamline(streamline) == SimplifyFrom(streamline, 2, <<streamline[1]>>)

\* complexifyStreamlineRecursive: [v1, v2] when they are within dstep, else
\* the two halves about the midpoint.
RECURSIVE complexifyStreamlineRecursive(_, _)
complexifyStreamlineRecursive(v1, v2) ==
    IF DistSq(v1, v2) <= Dstep * Dstep THEN <<v1, v2>>
    ELSE LET halfway == <<v1[1] + (v2[1] - v1[1]) \div 2, v1[2] + (v2[2] - v1[2]) \div 2>>
         IN  complexifyStreamlineRecursive(v1, halfway)
             \o complexifyStreamlineRecursive(halfway, v2)

\* complexifyStreamlineForIsland: every edge of s, and, for more than 2
\* points, the edge from the last point back to the first.
RECURSIVE ComplexifyEdges(_, _)
ComplexifyEdges(s, i) ==
    IF i > Len(s) - 1 THEN << >>
    ELSE complexifyStreamlineRecursive(s[i], s[i + 1]) \o ComplexifyEdges(s, i + 1)

complexifyStreamlineForIsland(s) ==
    ComplexifyEdges(s, 1)
    \o (IF Len(s) > 2 THEN complexifyStreamlineRecursive(s[Len(s)], s[1]) ELSE << >>)

\* addIslandToSystem(island, major): the simplified coastline goes to
\* allStreamlinesSimple, its samples to the collision grid and the streamline
\* list of the direction and to allStreamlines.
addIslandToSystem(g, island, major) ==
    IF Len(island.coastline) = 0 THEN g
    ELSE LET simplified == simplifyStreamline(island.coastline)
             complex == complexifyStreamlineForIsland(simplified)
             samples == {complex[k] : k \in 1 .. Len(complex)}
         IN  [g EXCEPT !.allStreamlinesSimple = Append(@, simplified),
                       !.allStreamlines = Append(@, complex),
                       !.gridMajor = IF major THEN @ \cup samples ELSE @,
                       !.gridMinor = IF major THEN @ ELSE @ \cup samples,
                       !.streamlinesMajor = IF major THEN Append(@, complex) ELSE @,
                       !.streamlinesMinor = IF major THEN @ ELSE Append(@, complex)]

\* The end of the loop body for one island, and, after the last island,
\* updateTensorFieldWithIslands.
NextIsland(g) ==
    IF g.i + 1 < g.n
    THEN [g EXCEPT !.i = g.i + 1, !.tries = 0]
    ELSE [g EXCEPT !.i = g.i + 1, !.tries = 0, !.phase = "done",
                   !.tfIslands = [k \in 1 .. Len(g.islands) |-> g.islands[k].coastline],
                   !.tfSea = g.sea]

\* createCoast with useHeightmapIslands: createHeightmapIslands up to its
\* loop, on a generator that generateRoads has just constructed.
CreateCoast(n, worldScale) ==
    /\ gen.phase = "idle"
    /\ gen' = [phase |-> "loop", n |-> n, worldScale |-> worldScale,
               i |-> 0, tries |-> 0,
               islands |-> << >>, fate |-> << >>, sea |-> createFullWorldSea,
               allStreamlinesSimple |-> << >>, allStreamlines |-> << >>,
               gridMajor |-> {}, gridMinor |-> {},
               streamlinesMajor |-> << >>, streamlinesMinor |-> << >>,
               tfIslands |-> << >>, tfSea |-> << >>, coasts |-> gen.coasts]
    /\ UNCHANGED <<ds, calls, smooth, post>>

\* One iteration of the loop of generateIslandCenter for island gen.i with
\* the candidate drawn.  A rejected candidate counts as a try, and the 50th
\* rejection gives up the island; an accepted one is the centre with which
\* createSingleHeightmapIsland goes on (Math.random in state e).  throws: an
\* exception is raised inside the try block, which the catch turns into
\* null.  The island is pushed and added to the system if isValidIsland.
TryCenter(candidate, e, throws) ==
    /\ gen.phase = "loop"
    /\ gen' =
         IF ~validPosition(candidate, gen.islands)
         THEN IF gen.tries + 1 < Attempts
              THEN [gen EXCEPT !.tries = gen.tries + 1]
              ELSE NextIsland([gen EXCEPT !.fate = Append(gen.fate, "nocenter")])
         ELSE IF throws
         THEN NextIsland([gen EXCEPT !.fate = Append(gen.fate, "threw")])
         ELSE LET island == [center |-> candidate,
                             coastline |-> heightmapToWorld(CoastlineFor(e), candidate,
                                                            IslandSize, gen.worldScale)]
              IN  IF isValidIsland(island)
                  THEN NextIsland(addIslandToSystem(
                           [gen EXCEPT !.islands = Append(gen.islands, island),
                                       !.fate = Append(gen.fate, "placed")],
                           island, gen.i % 2 = 0))
                  ELSE NextIsland([gen EXCEPT !.fate = Append(gen.fate, "invalid")])
    /\ UNCHANGED <<ds, calls, smooth, post>>

(***************************************************************************)
(* SolidLandmassGenerator.createCoast in solid-landmass mode, on the same  *)
(* world.  Angles are multiples of 1/32 of a turn, cosines in thousandths. *)
(***************************************************************************)
\* What Math.random gives to one run: the lowest values, the highest, or both
\* in turn.
RandomPatterns == {"low", "high", "mixed"}
Pick(pattern, i, low, high) ==
    IF pattern = "low" THEN low
    ELSE IF pattern = "high" THEN high
    ELSE IF i % 2 = 0 THEN high ELSE low

\* Math.min(worldDimensions.x, worldDimensions.y) * size * factor, with
\* primaryLandmassSize at its default 0.6 and factor in hundredths.
BaseRadius(factor) == (WorldDim * 6 * factor) \div (10 * 100)

WorldCenter == <<WorldDim \div 2, WorldDim \div 2>>

\* createOrganicCircle with 32 segments; getOrganicRadiusVariation is a sum
\* of sines of random phase clamped to 0.4 .. 1.6, taken at its two bounds.
createOrganicCircle(center, radius, pattern) ==
    [k \in 1 .. 32 |->
        LET actualRadius == (radius * Pick(pattern, k - 1, 400, 1600)) \div 1000
        IN  << center[1] + (Cos32(k - 1) * actualRadius) \div 1000,
               center[2] + (Sin32(k - 1) * actualRadius) \div 1000 >>]

\* generateContinentControlPoints with 8 points, at 70% .. 130% of the radius.
generateContinentControlPoints(center, baseRadius, pattern) ==
    [k \in 1 .. 8 |->
        LET radius == (baseRadius * Pick(pattern, k - 1, 700, 1299)) \div 1000
        IN  << center[1] + (Cos32(4 * (k - 1)) * radius) \div 1000,
               center[2] + (Sin32(4 * (k - 1)) * radius) \div 1000 >>]

\* orientation(p, q, r): 0 collinear, 1 clockwise, 2 counterclockwise
orientation(p, q, r) ==
    LET val == (q[2] - p[2]) * (r[1] - q[1]) - (q[1] - p[1]) * (r[2] - q[2])
    IN  IF val = 0 THEN 0 ELSE IF val > 0 THEN 1 ELSE 2

\* The for loop of computeConvexHull over i = 1 .. Len(points) from next.
RECURSIVE WrapNext(_, _, _, _)
WrapNext(points, current, i, next) ==
    IF i > Len(points) THEN next
    ELSE WrapNext(points, current, i + 1,
                  IF orientation(points[current], points[i], points[next]) = 2
                  THEN i ELSE next)

\* The do-while loop of computeConvexHull; it is left after Len(points)
\* rounds if it has not come back to the leftmost point.
RECURSIVE WrapFrom(_, _, _, _)
WrapFrom(points, leftmost, current, hull) ==
    LET pushed == Append(hull, points[current])
        next == WrapNext(points, current, 1, (current % Len(points)) + 1)
    IN  IF next = leftmost \/ Len(pushed) >= Len(points) THEN pushed
        ELSE WrapFrom(points, leftmost, next, pushed)

\* computeConvexHull: gift wrapping from the first point of least x.
computeConvexHull(points) ==
    IF Len(points) < 3 THEN points
    ELSE LET leftmost == CHOOSE i \in 1 .. Len(points) :
                            /\ \A j \in 1 .. Len(points) : points[i][1] <= points[j][1]
                            /\ \A j \in 1 .. i - 1 : points[j][1] > points[i][1]
         IN  WrapFrom(points, leftmost, leftmost, << >>)

\* addOrganicVariation: every point moved by (Math.random() - 0.5) *
\* maxVariation, here along the x axis.
addOrganicVariation(polygon, maxVariation, pattern) ==
    [k \in 1 .. Len(polygon) |->
        << polygon[k][1] + Pick(pattern, k - 1, 0 - (maxVariation \div 2), maxVariation \div 2),
           polygon[k][2] >>]

\* createPeninsulaBase(edge): a strip on the north edge, or on the south one.
createPeninsulaBase(edge) ==
    LET baseWidth == (WorldDim * 3) \div 10
        baseHeight == WorldDim \div 10
    IN  IF edge = "north"
        THEN << <<0, WorldDim>>, <<baseWidth, WorldDim>>,
                <<baseWidth, WorldDim - baseHeight>>, <<0, WorldDim - baseHeight>> >>
        ELSE << <<0, 0>>, <<baseWidth, 0>>, <<baseWidth, baseHeight>>, <<0, baseHeight>> >>

\* generatePrimaryLandmass: the switch on landmassType.
generatePrimaryLandmass(landmassType, pattern, edge) ==
    IF landmassType = "peninsula"
    THEN createPeninsulaBase(edge) \o createOrganicCircle(WorldCenter, BaseRadius(30), pattern)
    ELSE IF landmassType = "island_chain"
    THEN createOrganicCircle(WorldCenter, BaseRadius(35), pattern)
    ELSE IF landmassType = "archipelago"
    THEN createOrganicCircle(WorldCenter, BaseRadius(30), pattern)
    ELSE addOrganicVariation(
             computeConvexHull(
                 generateContinentControlPoints(WorldCenter, BaseRadius(40), pattern)),
             BaseRadius(40) \div 5, pattern)

\* PolygonUtil.subtractPolygons(polygon, hole), when it returns: the
\* difference, kept as its two operands.
subtractPolygons(polygon, hole) == [polygon |-> polygon, minus |-> hole]

\* Mutant: the failure of the difference leaves the sea polygon empty.
generateSeaFromLandmasses_Empty(primaryLandmass, fails) ==
    IF fails THEN [sea |-> << >>, warned |-> TRUE]
    ELSE [sea |-> subtractPolygons(createFullWorldSea, primaryLandmass), warned |-> FALSE]

\* generateSeaFromLandmasses: the world rectangle minus the primary landmass,
\* or, when subtractPolygons throws, the world rectangle and a warning.
generateSeaFromLandmasses(primaryLandmass, fails) ==
    IF fails THEN [sea |-> createFullWorldSea, warned |-> TRUE]
    ELSE [sea |-> subtractPolygons(createFullWorldSea, primaryLandmass), warned |-> FALSE]

\* createCoast with useSolidLandmasses: createSolidLandmasses.  The coastal
\* features, secondary landmasses, developable areas and harbours are the
\* empty placeholders of the source; setLandmasses is called when the tensor
\* field has it.
CreateSolidCoast(landmassType, pattern, edge, fails, hasSetLandmasses) ==
    /\ gen.phase = "idle"
    /\ LET primaryLandmass == generatePrimaryLandmass(landmassType, pattern, edge)
           sea == generateSeaFromLandmasses(primaryLandmass, fails)
       IN  gen' = [phase |-> "solid", landmassType |-> landmassType,
                   \* the edge selectRandomWorldEdge gave (a peninsula only)
                   edgeConnection |-> IF landmassType = "peninsula" THEN edge
                                      ELSE "none",
                   primaryLandmass |-> primaryLandmass,
                   secondaryLandmasses |-> << >>, developableAreas |-> << >>,
                   naturalHarbors |-> << >>,
                   sea |-> sea.sea, warned |-> sea.warned, seaFailed |-> fails,
                   tfSea |-> sea.sea,
                   tfLandmasses |-> IF hasSetLandmasses THEN <<primaryLandmass>> ELSE << >>,
                   coastline |-> primaryLandmass, returned |-> TRUE,
                   coasts |-> gen.coasts]
    /\ UNCHANGED <<ds, calls, smooth, post>>

\* PolygonUtil.insidePolygon: the even-odd rule on a ray to the right of point.
insidePolygon(point, polygon) ==
    LET n == Len(polygon)
        crosses(i) ==
            LET j  == IF i = 1 THEN n ELSE i - 1
                xi == polygon[i][1]
                yi == polygon[i][2]
                xj == polygon[j][1]
                yj == polygon[j][2]
            IN  /\ (yi > point[2]) # (yj > point[2])
                /\ IF yj > yi
                   THEN (point[1] - xi) * (yj - yi) < (xj - xi) * (point[2] - yi)
                   ELSE (point[1] - xi) * (yj - yi) > (xj - xi) * (point[2] - yi)
    IN  n > 0 /\ Cardinality({i \in 1 .. n : crosses(i)}) % 2 = 1

\* TensorField.onLand with no river (createRiver clears it in island mode):
\* the sea first, then the islands.
onLand(point) ==
    IF insidePolygon(point, gen.tfSea) THEN FALSE
    ELSE IF \E k \in 1 .. Len(gen.tfIslands) : insidePolygon(point, gen.tfIslands[k])
    THEN TRUE
    ELSE ~insidePolygon(point, << >>)

LandmassTypes == {"peninsula", "island_chain", "continent", "archipelago"}
WorldEdges == {"north", "south", "east", "west"}

IslandInit ==
    /\ EngineQuiet
    /\ smooth = Unit \div 2
    /\ post = PostIdle
    /\ gen = [phase |-> "idle", coasts |-> IslandCoastlines]

IslandNext ==
    \/ \E n \in 1 .. MaxIslands, worldScale \in WorldScales : CreateCoast(n, worldScale)
    \/ \E candidate \in Candidates, e \in MathRandomStates, throws \in BOOLEAN :
          TryCenter(candidate, e, throws)
    \/ \E landmassType \in LandmassTypes, pattern \in RandomPatterns,
          edge \in WorldEdges, fails \in BOOLEAN, hasSetLandmasses \in BOOLEAN :
          CreateSolidCoast(landmassType, pattern, edge, fails, hasSetLandmasses)

SpecIsland == IslandInit /\ [][IslandNext]_vars

(***************************************************************************)
(* Specification SpecCoast: continental coastline generation, the retry    *)
(* loop of WaterGenerator.createCoast.  Coordinates are in steps of the    *)
(* integration (dstep); the world is the square from (0, 0) to             *)
(* (CoastWorld, CoastWorld).  The integration of the flow field is not     *)
(* modelled: an attempt's raw path is any short path of unit steps along   *)
(* the axes in and around the world.                                       *)
(***************************************************************************)
\* Attempts per generation call.
TRIES == 100
\* The extension of an endpoint, in steps: dstep * 5.
Extension == 5
\* Side of the world, in steps.
CoastWorld == 6

CoastPoints == {<<x, y>> : x, y \in (0 - 1) .. (CoastWorld + 1)}
UnitSteps == {<<1, 0>>, <<0 - 1, 0>>, <<0, 1>>, <<0, 0 - 1>>}
Moved(a, d) == <<a[1] + d[1], a[2] + d[2]>>

\* The raw paths of an attempt: two or three points of CoastPoints, one step
\* apart, not turning back.
RawPaths ==
    {p \in {<<a, Moved(a, d)>> : a \in CoastPoints, d \in UnitSteps} :
        p[2] \in CoastPoints}
    \cup
    {p \in {<<a, Moved(a, d), Moved(Moved(a, d), e)>> :
                a \in CoastPoints, d \in UnitSteps, e \in UnitSteps} :
        p[2] \in CoastPoints /\ p[3] \in CoastPoints /\ p[3] # p[1]}

\* Strictly outside the world rectangle.
vectorOffScreen(v) ==
    v[1] < 0 \/ v[2] < 0 \/ v[1] > CoastWorld \/ v[2] > CoastWorld

\* first + (first - second).setLength(dstep * 5), for points one step apart
Extended(first, second) ==
    <<first[1] + Extension * (first[1] - second[1]),
      first[2] + Extension * (first[2] - second[2])>>

\* Mutant: only the start of the path is extended.
extendStreamline_StartOnly(streamline) ==
    <<Extended(streamline[1], streamline[2])>> \o streamline

\* extendStreamline: a point is put before the first and after the last.
extendStreamline(streamline) ==
    LET n == Len(streamline)
    IN  <<Extended(streamline[1], streamline[2])>> \o streamline
            \o <<Extended(streamline[n], streamline[n - 1])>>

\* Mutant: the last endpoint is not tested.
reachesEdges_FirstOnly(streamline) == vectorOffScreen(streamline[1])

reachesEdges(streamline) ==
    vectorOffScreen(streamline[1]) /\ vectorOffScreen(streamline[Len(streamline)])

\* One attempt of the loop, raw being the path integrated from its seed: the
\* extended path is accepted if it reaches the edges; the attempt that uses up
\* the budget without one leaves the coastline empty and surfaces a warning.
CoastAttempt(raw) ==
    /\ gen.phase = "trying"
    /\ gen.tries < TRIES
    /\ LET coastStreamline == extendStreamline(raw)
       IN  gen' = IF reachesEdges(coastStreamline)
                  THEN [gen EXCEPT !.phase = "done", !.tries = gen.tries + 1,
                                   !.raw = raw, !.coastline = coastStreamline]
                  ELSE IF gen.tries + 1 < TRIES
                  THEN [gen EXCEPT !.tries = gen.tries + 1]
                  ELSE [gen EXCEPT !.phase = "done", !.tries = gen.tries + 1,
                                   !.warned = TRUE]
    /\ UNCHANGED <<ds, calls, smooth, post>>

CoastInit ==
    /\ EngineQuiet
    /\ smooth = Unit \div 2
    /\ post = PostIdle
    /\ gen = [phase |-> "trying", tries |-> 0, raw |-> << >>, coastline |-> << >>,
              warned |-> FALSE]

CoastNext == \E raw \in RawPaths : CoastAttempt(raw)

SpecCoast == CoastInit /\ [][CoastNext]_vars

(***************************************************************************)
(* Claims about the heightmap engine (specification Spec).                 *)
(***************************************************************************)
CallIds == 1 .. Len(calls)

\* A call made "with seed s": the instance was constructed with s, or s was
\* passed in the options of generateHeightmap.
SameFixedSeed(a, b) ==
    \/ calls[a].ctorSeed # NoSeed /\ calls[a].ctorSeed = calls[b].ctorSeed
    \/ calls[a].seed # NoSeed /\ calls[a].seed = calls[b].seed

\* C1: given a fixed seed, any two calls with identical parameters (size,
\* smoothness, seed) return identical grids, on one instance or on two, the
\* seed being the constructor's or the one passed in the options.
C1_Deterministic ==
    \A a, b \in CallIds :
        ( /\ calls[a].ok /\ calls[b].ok
          /\ calls[a].size = calls[b].size
          /\ calls[a].smoothness = calls[b].smoothness
          /\ SameFixedSeed(a, b) )
        => calls[a].map = calls[b].map

IsPow2(n) == \E k \in 0 .. MaxSize : n = 2^k

Corner(c, size) == c[1] \in {0, size} /\ c[2] \in {0, size}

\* C3: for size = 2^k the grid has exactly (size+1) rows of (size+1) cells, the
\* four corners hold four separate draws of the generator (its first four),
\* no pass overwrites them, every other cell was written by a diamond or
\* square step, and every value is finite (bounded by 1 + 2 * smoothness).
C3_GridShape ==
    \A a \in CallIds :
        LET c    == calls[a]
            n    == c.size
            r1   == LcgNext(c.rngBefore)
            r2   == LcgNext(r1)
            r3   == LcgNext(r2)
            r4   == LcgNext(r3)
        IN  IsPow2(n) =>
              /\ c.ok
              /\ DOMAIN c.map = 0 .. n
              /\ \A x \in 0 .. n : DOMAIN c.map[x] = 0 .. n
              /\ c.map[0][0] = RandomValue(r1)
              /\ c.map[0][n] = RandomValue(r2)
              /\ c.map[n][0] = RandomValue(r3)
              /\ c.map[n][n] = RandomValue(r4)
              /\ \A x, y \in 0 .. n :
                    /\ Corner(<<x, y>>, n) => c.writes[x][y] = 0
                    /\ ~Corner(<<x, y>>, n) => c.writes[x][y] >= 1
                    /\ c.map[x][y] <= Unit + 2 * c.smoothness
                    /\ c.map[x][y] >= 0 - (Unit + 2 * c.smoothness)

\* C3 witness: a grid of 5 x 5 cells came back, with distinct corner draws.
C3_Witness ==
    \E a \in CallIds :
        /\ calls[a].ok /\ calls[a].size = 4
        /\ calls[a].map[0][0] # calls[a].map[0][4]
        /\ calls[a].writes[2][2] = 1

\* C4: generateHeightmap throws, and returns no grid, for every size that is
\* not a power of two; it returns a grid exactly for the powers of two.
C4_InvalidSize ==
    \A a \in CallIds :
        /\ calls[a].ok <=> IsPow2(calls[a].size)
        /\ ~calls[a].ok => calls[a].map = << >>

\* C4 witness: sizes 0, -1 and 3 were refused and a power of two accepted.
C4_Witness ==
    /\ Len(calls) = 2
    /\ calls[1].size \in {0 - 1, 0, 3} /\ ~calls[1].ok
    /\ calls[2].size \in {1, 2, 4} /\ calls[2].ok


(***************************************************************************)
(* Claims about heightmap-island generation (SpecIsland).                  *)
(***************************************************************************)
\* Points around every candidate centre.
SamplePoints ==
    {<<c[1] + dx, c[2] + dy>> : c \in Candidates, dx \in {0 - 120, 0, 120},
                                dy \in {0 - 120, 0, 120}}

InSomeIsland(p) == \E k \in 1 .. Len(gen.tfIslands) : insidePolygon(p, gen.tfIslands[k])

\* C2: after a completed generation cycle, a point inside the published sea
\* polygon is not land, and a point inside a published island polygon is land.
C2_IsLand ==
    gen.phase = "done" =>
        \A p \in SamplePoints :
            /\ insidePolygon(p, gen.tfSea) => ~onLand(p)
            /\ InSomeIsland(p) => onLand(p)

CenterDistSq(a, b) == DistSq(gen.islands[a].center, gen.islands[b].center)

C7_State ==
    gen.phase \in {"loop", "done"} =>
        /\ gen.tries < Attempts
        /\ Len(gen.islands) <= gen.i /\ gen.i <= gen.n
        /\ gen.phase = "done" =>
              /\ gen.i = gen.n
              /\ Len(gen.tfIslands) = Len(gen.islands)
              /\ \A k \in 1 .. Len(gen.islands) :
                    gen.tfIslands[k] = gen.islands[k].coastline
        /\ \A a, b \in 1 .. Len(gen.islands) :
              a # b => CenterDistSq(a, b) >= MinDistance * MinDistance

C7_Step ==
    (gen.phase = "loop" /\ gen'.phase \in {"loop", "done"}) =>
        /\ gen'.tries \in {0, gen.tries + 1}
        /\ Len(gen'.islands) > Len(gen.islands) =>
              \A k \in 1 .. Len(gen.islands) :
                  DistSq(gen'.islands[Len(gen'.islands)].center, gen.islands[k].center)
                      >= MinDistance * MinDistance
        /\ ( /\ Len(gen'.fate) > Len(gen.fate)
             /\ gen'.fate[Len(gen'.fate)] = "nocenter" ) =>
              /\ gen.tries = Attempts - 1
              /\ gen'.islands = gen.islands
              /\ gen'.i = gen.i + 1
              /\ gen'.phase = IF gen'.i < gen.n THEN "loop" ELSE "done"

\* C7: in heightmap-island mode with numIslands = n, an island is placed only
\* at a centre at least 800 units from every island accepted before; an island
\* is given up only on the rejection of its 50th candidate, and the loop then
\* goes on with the next island; the published islands number at most n and
\* their centres are pairwise at least 800 apart.
C7_IslandSpacing == [](C7_State) /\ [][C7_Step]_vars

\* C7 witness: three islands were asked for; the first and the third were
\* placed, exactly 800 apart, and the second was given up after 50 candidates.
C7_Witness ==
    /\ gen.phase = "done" /\ gen.n = 3
    /\ gen.fate = <<"placed", "nocenter", "placed">>
    /\ Len(gen.tfIslands) = 2
    /\ CenterDistSq(1, 2) = MinDistance * MinDistance

(***************************************************************************)
(* Claims about the continental coastline (SpecCoast).                     *)
(***************************************************************************)
\* C9: at most TRIES attempts are made; a path is accepted only if both
\* endpoints of the extended path are strictly outside the world rectangle;
\* when the attempts are used up the coastline is empty, a warning has been
\* surfaced and generation has ended normally.
C9_BoundedAttempts ==
    /\ gen.tries <= TRIES
    /\ gen.phase = "trying" => gen.tries < TRIES /\ gen.coastline = << >> /\ ~gen.warned
    /\ (gen.phase = "done" /\ gen.coastline # << >>) =>
          /\ vectorOffScreen(gen.coastline[1])
          /\ vectorOffScreen(gen.coastline[Len(gen.coastline)])
          /\ ~gen.warned
    /\ (gen.phase = "done" /\ gen.coastline = << >>) =>
          gen.tries = TRIES /\ gen.warned

\* C9 witness: the 100th attempt failed like the 99 before it.
C9_Witness ==
    gen.phase = "done" /\ gen.tries = TRIES /\ gen.coastline = << >> /\ gen.warned

\* How far outside the world rectangle a point lies (0 inside).
OutDist(v) == Max2(Max2(0 - v[1], v[1] - CoastWorld), Max2(Max2(0 - v[2], v[2] - CoastWorld), 0))

Succeeded == gen.phase = "done" /\ gen.coastline # << >>

GridCells(hm) == {<<x, y>> : x \in DOMAIN hm, y \in DOMAIN hm[0]}

\* C5: normalizeHeightmap(hm, -1, 1) of a heightmap that is not constant has
\* the shape of hm, minimum exactly -1 and maximum exactly 1, and keeps the
\* order of the cell values; a constant heightmap comes back unchanged.
C5_NormalizeRange ==
    (post.stage = "normalized" /\ post.lo = 0 - Unit /\ post.hi = Unit) =>
        LET in  == post.input
            out == post.hm
        IN  IF Cardinality(CellValues(in)) = 1
            THEN out = in
            ELSE /\ DOMAIN out = DOMAIN in
                 /\ \A x \in DOMAIN in : DOMAIN out[x] = DOMAIN in[x]
                 /\ MinOf(CellValues(out)) = 0 - Unit
                 /\ MaxOf(CellValues(out)) = Unit
                 /\ \A c, d \in GridCells(in) :
                        in[c[1]][c[2]] <= in[d[1]][d[2]]
                            => out[c[1]][c[2]] <= out[d[1]][d[2]]

\* C5 witness: a heightmap of four levels -0.5, 0, 0.5, 1 was normalized to
\* the range -1 .. 1, its levels moved.
C5_Witness ==
    /\ post.stage = "normalized" /\ post.lo = 0 - Unit /\ post.hi = Unit
    /\ Cardinality(CellValues(post.input)) = 4
    /\ Cardinality(CellValues(post.hm)) = 4
    /\ post.hm # post.input

\* C6: every contour returned by extractContours with minLength = L has at
\* least L points, whatever the heightmap, the threshold and the smoothing
\* flag (L = 5 is the default, L = 20 the coastline's).
C6_MinLength ==
    post.stage = "contours" =>
        \A i \in 1 .. Len(post.out) : Len(post.out[i]) >= post.minLength

\* C6 witness: with the default minLength and smoothing on, a contour was
\* returned while a shorter one of the same heightmap was filtered out.
C6_Witness ==
    /\ post.stage = "contours" /\ post.minLength = DefaultMinLength
    /\ post.smoothing
    /\ Len(post.out) >= 1
    /\ Len(connectSegments(extractSegments(post.hm, post.threshold))) > Len(post.out)

\* C8: the coastline extracted at sea level 0 from a generated, island-masked,
\* normalized heightmap is a single non-empty contour, closed (last point =
\* first point), of at least 20 points.
C8_ClosedCoastline ==
    (post.stage = "coast" /\ post.threshold = 0 /\ post.lo = 0 - Unit /\ post.hi = Unit) =>
        /\ Len(post.out) >= CoastMinLength
        /\ post.out[1] = post.out[Len(post.out)]

(***************************************************************************)
(* Specification SpecApi: the MapGeneratorAPI methods of Main and the      *)
(* water panel they drive.  gen.params is the one WaterParams object that  *)
(* Main reaches through getCoastlineParams and that WaterGUI holds as      *)
(* this.params; gen.run is what the latest generateRoads did; gen.last is  *)
(* the latest call and gen.prev the method of the call before it.          *)
(* Fractions are in 1/Unit.                                                *)
(***************************************************************************)
\* An optional field that is not set, and a config without fields ({}).
Undefined == [f \in {} |-> FALSE]

\* Object.assign(target, source)
ObjectAssign(target, source) ==
    [f \in DOMAIN target \cup DOMAIN source |->
        IF f \in DOMAIN source THEN source[f] ELSE target[f]]

\* The literal that generateHeightmapIslands and initFolder assign to
\* params.heightmapIslands when it is not set.
HeightmapIslandDefaults ==
    [numIslands |-> 3, baseSize |-> 256, sizeVariation |-> (3 * Unit) \div 10,
     smoothness |-> Unit \div 2, seaLevel |-> 0, beachLevel |-> Unit \div 10,
     worldScale |-> 2 * Unit, falloffFactor |-> 2 * Unit,
     volcanoMode |-> FALSE, atolloMode |-> FALSE]

\* The literal that generateSolidLandmasses assigns to
\* params.landmassGeneration when it is not set (naturalFeatures, sizeRange
\* and proximityFactor, which no method changes, are left out).
LandmassDefaults ==
    [landmassType |-> "continent", primaryLandmassSize |-> (6 * Unit) \div 10,
     coastalComplexity |-> (7 * Unit) \div 10,
     developableAreaRatio |-> (6 * Unit) \div 10,
     secondaryLandmasses |-> [enabled |-> FALSE, count |-> 2]]

\* The configs the calls are made with.
HeightmapConfigs ==
    { Undefined,
      [numIslands |-> 2],
      [volcanoMode |-> TRUE],
      [atolloMode |-> TRUE],
      [volcanoMode |-> TRUE, atolloMode |-> TRUE],
      [falloffFactor |-> (3 * Unit) \div 2, baseSize |-> 300],
      [noiseSize |-> 15] }
LandmassConfigs ==
    { Undefined,
      [landmassType |-> "archipelago"],
      [secondaryLandmassesEnabled |-> TRUE, secondaryLandmassCount |-> 5] }
CoastlineConfigs ==
    { Undefined,
      [noiseEnabled |-> FALSE, numRivers |-> 1],
      [noiseSize |-> 15, numRivers |-> 3] }

Has(config, f) == f \in DOMAIN config

\* Mutant: the heightmap flag is looked at first.
createWaterGenerator_IslandFirst(params) ==
    IF params.useHeightmapIslands THEN "HeightmapIslandGenerator"
    ELSE IF params.useSolidLandmasses THEN "SolidLandmassGenerator"
    ELSE "WaterGenerator"

\* WaterGUI.createWaterGenerator: the class of the generator it constructs.
createWaterGenerator(params) ==
    IF params.useSolidLandmasses THEN "SolidLandmassGenerator"
    ELSE IF params.useHeightmapIslands THEN "HeightmapIslandGenerator"
    ELSE "WaterGenerator"

\* createSingleHeightmapIsland: the profile applied to each heightmap.
Profile(heightmapIslands) ==
    IF heightmapIslands.volcanoMode THEN "volcanic"
    ELSE IF heightmapIslands.atolloMode THEN "atoll"
    ELSE "none"

\* WaterGUI.generateRoads: a new generator, then its createCoast and
\* createRiver.  mode is the branch createCoast takes, config the parameters
\* that branch reads, threw whether a TypeError left createCoast (a field
\* read of params.heightmapIslands or params.landmassGeneration that is not
\* set).
generateRoads(params) ==
    LET generator == createWaterGenerator(params)
    IN  IF generator = "SolidLandmassGenerator" /\ params.useSolidLandmasses
        THEN [generator |-> generator, mode |-> "solid",
              config |-> params.landmassGeneration, profile |-> "none",
              threw |-> (params.landmassGeneration = Undefined)]
        ELSE IF generator = "HeightmapIslandGenerator" /\ params.useHeightmapIslands
        THEN [generator |-> generator, mode |-> "heightmap",
              config |-> params.heightmapIslands,
              profile |-> IF params.heightmapIslands = Undefined THEN "none"
                          ELSE Profile(params.heightmapIslands),
              threw |-> (params.heightmapIslands = Undefined)]
        ELSE [generator |-> generator, mode |-> "continental",
              config |-> [coastNoise |-> params.coastNoise, numRivers |-> params.numRivers],
              profile |-> "none", threw |-> FALSE]

\* What a method of Main leaves behind: the parameters, the generation it
\* ran through mainGui.generateCoastline, and how the call ended.
AfterCall(method, config, params) ==
    LET run == generateRoads(params)
    IN  [gen EXCEPT !.params = params, !.firstGenerate = FALSE, !.run = run,
                    !.prev = gen.last.method,
                    !.last = [method |-> method, config |-> config,
                              outcome |-> IF run.threw THEN "threw" ELSE "resolved"]]

\* The noise fields that generateHeightmapIslands and generateCoastline copy.
CoastNoiseWith(coastNoise, config) ==
    [f \in DOMAIN coastNoise |-> IF Has(config, f) THEN config[f] ELSE coastNoise[f]]

\* Main.generateHeightmapIslands(config)
generateHeightmapIslands(config) ==
    /\ gen.phase = "api"
    /\ LET p1 == [gen.params EXCEPT !.useHeightmapIslands = TRUE,
                                    !.useSolidLandmasses = FALSE]
           p2 == IF p1.heightmapIslands = Undefined
                 THEN [p1 EXCEPT !.heightmapIslands = HeightmapIslandDefaults]
                 ELSE p1
           p3 == [p2 EXCEPT !.heightmapIslands = ObjectAssign(@, config),
                            !.coastNoise = CoastNoiseWith(@, config)]
       IN  gen' = AfterCall("generateHeightmapIslands", config, p3)
    /\ UNCHANGED <<ds, calls, smooth, post>>

\* Main.generateSolidLandmasses(config)
generateSolidLandmasses(config) ==
    /\ gen.phase = "api"
    /\ LET p1 == [gen.params EXCEPT !.useSolidLandmasses = TRUE,
                                    !.useHeightmapIslands = FALSE]
           lg == IF p1.landmassGeneration = Undefined THEN LandmassDefaults
                 ELSE p1.landmassGeneration
           l2 == [lg EXCEPT
                    !.landmassType =
                        IF Has(config, "landmassType") THEN config.landmassType ELSE @,
                    !.primaryLandmassSize =
                        IF Has(config, "primaryLandmassSize")
                        THEN config.primaryLandmassSize ELSE @,
                    !.coastalComplexity =
                        IF Has(config, "coastalComplexity")
                        THEN config.coastalComplexity ELSE @,
                    !.developableAreaRatio =
                        IF Has(config, "developableAreaRatio")
                        THEN config.developableAreaRatio ELSE @,
                    !.secondaryLandmasses.enabled =
                        IF Has(config, "secondaryLandmassesEnabled")
                        THEN config.secondaryLandmassesEnabled ELSE @,
                    !.secondaryLandmasses.count =
                        IF Has(config, "secondaryLandmassCount")
                        THEN config.secondaryLandmassCount ELSE @]
       IN  gen' = AfterCall("generateSolidLandmasses", config,
                            [p1 EXCEPT !.landmassGeneration = l2])
    /\ UNCHANGED <<ds, calls, smooth, post>>

\* Main.generateCoastline(config)
generateCoastline(config) ==
    /\ gen.phase = "api"
    /\ LET p1 == [gen.params EXCEPT !.useHeightmapIslands = FALSE,
                                    !.useSolidLandmasses = FALSE,
                                    !.coastNoise = CoastNoiseWith(@, config),
                                    !.numRivers =
                                        IF Has(config, "numRivers")
                                        THEN config.numRivers ELSE @]
       IN  gen' = AfterCall("generateCoastline", config, p1)
    /\ UNCHANGED <<ds, calls, smooth, post>>

\* WaterGUI.initFolder: the defaults of the island panel.
initFolder ==
    /\ gen.phase = "api"
    /\ gen.params.heightmapIslands = Undefined
    /\ gen' = [gen EXCEPT !.params.heightmapIslands = HeightmapIslandDefaults,
                          !.prev = gen.last.method,
                          !.last = [method |-> "initFolder", config |-> Undefined,
                                    outcome |-> "resolved"]]
    /\ UNCHANGED <<ds, calls, smooth, post>>

\* The two check boxes of the Generation Mode folder.
SetMode(flag, value) ==
    /\ gen.phase = "api"
    /\ gen.params[flag] # value
    /\ gen' = [gen EXCEPT !.params[flag] = value,
                          !.prev = gen.last.method,
                          !.last = [method |-> "checkbox", config |-> Undefined,
                                    outcome |-> "resolved"]]
    /\ UNCHANGED <<ds, calls, smooth, post>>

\* The Generate button of the water panel: generateRoads.
Generate ==
    /\ gen.phase = "api"
    /\ LET run == generateRoads(gen.params)
       IN  gen' = [gen EXCEPT !.run = run,
                              !.prev = gen.last.method,
                              !.last = [method |-> "Generate", config |-> Undefined,
                                        outcome |-> IF run.threw THEN "threw"
                                                    ELSE "resolved"]]
    /\ UNCHANGED <<ds, calls, smooth, post>>

\* The state after new Main(): the water panel constructed in continental
\* mode, nothing generated; the documented defaults of the coastline noise
\* and of numRivers.
ApiInit ==
    /\ EngineQuiet
    /\ smooth = Unit \div 2
    /\ post = PostIdle
    /\ LET params ==
             [useSolidLandmasses |-> FALSE, useHeightmapIslands |-> FALSE,
              heightmapIslands |-> Undefined, landmassGeneration |-> Undefined,
              coastNoise |-> [noiseEnabled |-> TRUE, noiseSize |-> 30,
                              noiseAngle |-> 20],
              numRivers |-> 1]
       IN  gen = [phase |-> "api", params |-> params, firstGenerate |-> TRUE,
                  run |-> [generator |-> createWaterGenerator(params),
                           mode |-> "none", config |-> Undefined,
                           profile |-> "none", threw |-> FALSE],
                  prev |-> "new",
                  last |-> [method |-> "new", config |-> Undefined,
                            outcome |-> "resolved"]]

ApiNext ==
    \/ \E config \in HeightmapConfigs : generateHeightmapIslands(config)
    \/ \E config \in LandmassConfigs : generateSolidLandmasses(config)
    \/ \E config \in CoastlineConfigs : generateCoastline(config)
    \/ initFolder
    \/ \E flag \in {"useSolidLandmasses", "useHeightmapIslands"}, value \in BOOLEAN :
          SetMode(flag, value)
    \/ Generate

SpecApi == ApiInit /\ [][ApiNext]_vars

(***************************************************************************)
(* Claims about the API methods (SpecApi).                                 *)
(***************************************************************************)
ApiMethods == {"generateHeightmapIslands", "generateSolidLandmasses", "generateCoastline"}

\* C11: a generateHeightmapIslands call whose config sets both volcanoMode
\* and atolloMode is a configuration error: the call does not resolve, and
\* neither profile is applied.
C11_ExclusiveProfiles ==
    ( /\ gen.phase = "api"
      /\ gen.last.method = "generateHeightmapIslands"
      /\ Has(gen.last.config, "volcanoMode") /\ Has(gen.last.config, "atolloMode")
      /\ gen.last.config.volcanoMode /\ gen.last.config.atolloMode )
        => /\ gen.last.outcome # "resolved"
           /\ gen.run.profile = "none"

\* C12: a generateHeightmapIslands call generates with every field that its
\* config omits at the documented default, whatever the earlier calls were.
C12_OmittedDefaults ==
    (gen.phase = "api" /\ gen.last.method = "generateHeightmapIslands") =>
        \A f \in DOMAIN HeightmapIslandDefaults \ DOMAIN gen.last.config :
            gen.run.config[f] = HeightmapIslandDefaults[f]

\* C17: each generate method of the API runs its own generator in its own
\* mode whatever the calls before it, and leaves at most one of the two mode
\* flags set; with both flags set from the panel, Generate constructs the
\* solid-landmass generator.
C17_OwnMode ==
    gen.phase = "api" =>
        /\ gen.last.method = "generateHeightmapIslands" =>
               /\ gen.run.generator = "HeightmapIslandGenerator"
               /\ gen.run.mode = "heightmap"
        /\ gen.last.method = "generateSolidLandmasses" =>
               /\ gen.run.generator = "SolidLandmassGenerator"
               /\ gen.run.mode = "solid"
        /\ gen.last.method = "generateCoastline" =>
               /\ gen.run.generator = "WaterGenerator"
               /\ gen.run.mode = "continental"
        /\ gen.last.method \in ApiMethods =>
               ~(gen.params.useHeightmapIslands /\ gen.params.useSolidLandmasses)
        /\ ( /\ gen.last.method = "Generate"
             /\ gen.params.useHeightmapIslands /\ gen.params.useSolidLandmasses )
               => gen.run.generator = "SolidLandmassGenerator"

\* C17 witness: generateHeightmapIslands was called right after
\* generateSolidLandmasses and generated heightmap islands.
C17_Witness ==
    /\ gen.phase = "api"
    /\ gen.prev = "generateSolidLandmasses"
    /\ gen.last.method = "generateHeightmapIslands"
    /\ gen.run.mode = "heightmap"
    /\ gen.params.useHeightmapIslands /\ ~gen.params.useSolidLandmasses

(***************************************************************************)
(* Claims about the marching-squares table and the stitching (SpecGrid).   *)
(***************************************************************************)
\* Corner bit b (1, 2, 4, 8) of a configuration is set.
CornerIn(config, b) == (config \div b) % 2 = 1

\* The midpoints of the cell edges whose two corners are on opposite sides
\* of the threshold: bottom (0.5, 0), right (1, 0.5), top (0.5, 1), left (0, 0.5).
CrossedEdges(config) ==
    (IF CornerIn(config, 1) # CornerIn(config, 2) THEN {HalfPoint(1, 0)} ELSE {})
    \cup (IF CornerIn(config, 2) # CornerIn(config, 4) THEN {HalfPoint(2, 1)} ELSE {})
    \cup (IF CornerIn(config, 4) # CornerIn(config, 8) THEN {HalfPoint(1, 2)} ELSE {})
    \cup (IF CornerIn(config, 8) # CornerIn(config, 1) THEN {HalfPoint(0, 1)} ELSE {})

\* The edge midpoints that the segments of a table row end on.
CutEdges(config) ==
    {EDGE_TABLE(config)[i].start : i \in 1 .. Len(EDGE_TABLE(config))}
    \cup {EDGE_TABLE(config)[i].end : i \in 1 .. Len(EDGE_TABLE(config))}

\* The configurations of the cells of the heightmap whose contours were
\* extracted.
CellConfigs ==
    {getGridConfiguration(post.hm, x, y, post.threshold) :
        x, y \in 0 .. GridLen(post.hm) - 2}

\* C18: for the configuration of every cell, each segment of the table row
\* ends on two crossed edges, every crossed edge is the end of exactly one
\* segment of the row, and the row of the complement 15 - c cuts the same
\* edges.
C18_EdgeTable ==
    post.stage = "contours" =>
        \A c \in CellConfigs :
            LET row == EDGE_TABLE(c)
            IN  /\ \A i \in 1 .. Len(row) :
                       row[i].start \in CrossedEdges(c) /\ row[i].end \in CrossedEdges(c)
                /\ \A e \in CrossedEdges(c) :
                       Cardinality({i \in 1 .. Len(row) : row[i].start = e})
                       + Cardinality({i \in 1 .. Len(row) : row[i].end = e}) = 1
                /\ CutEdges(c) = CutEdges(15 - c)

\* The segments of the heightmap whose contours were extracted, and the calls
\* buildContour(segments, i, used) that connectSegments makes on them: i is
\* not used when the for loop reaches it.
PostSegments == extractSegments(post.hm, post.threshold)

UsedBefore(segments, i) ==
    ConnectFrom(segments, 1, i - 1, [contours |-> << >>, used |-> {}]).used

BuildCalls(segments) == {i \in 1 .. Len(segments) : i \notin UsedBefore(segments, i)}

\* The contour of buildContour when its while loop ends, before the closing.
RawWalk(segments, i) ==
    WalkContour(segments,
                [contour |-> <<segments[i].start, segments[i].end>>,
                 used    |-> UsedBefore(segments, i) \cup {i},
                 current |-> segments[i].end,
                 found   |-> TRUE],
                Len(segments)).contour

\* first.distanceTo(last) < 0.05 in units of 1/PointScale.
Within5Epsilon(first, last) == 400 * DistSq(first, last) < PointScale * PointScale

\* C19: buildContour returns the walked contour with a copy of its first
\* point appended, first and last then equal, exactly when the walk has more
\* than 2 points and ends within 5 * epsilon = 0.05 of its first point;
\* otherwise it returns the walked contour unchanged.
C19_CloseContour ==
    post.stage = "contours" =>
        \A i \in BuildCalls(PostSegments) :
            LET w == RawWalk(PostSegments, i)
                b == buildContour(PostSegments, i, UsedBefore(PostSegments, i)).contour
            IN  IF Len(w) > 2 /\ Within5Epsilon(w[1], w[Len(w)])
                THEN b = Append(w, w[1]) /\ b[1] = b[Len(b)]
                ELSE b = w

\* C19 witness: buildContour walked a loop of four segments back to its
\* first point and appended the copy.
C19_Witness ==
    /\ post.stage = "contours"
    /\ \E i \in BuildCalls(PostSegments) :
          LET b == buildContour(PostSegments, i, UsedBefore(PostSegments, i)).contour
          IN  /\ Len(RawWalk(PostSegments, i)) = 5
              /\ Len(b) = 6 /\ b[1] = b[Len(b)]

\* The first and the last point of a contour.
Ends(contour) == {contour[1], contour[Len(contour)]}

\* C20: after connectSegments every segment is used, each in exactly one
\* contour (the contours have as many segments together as there are), and no
\* two different contours have ends within epsilon of each other: no chain
\* of segments is returned as two contours.
C20_StitchingComplete ==
    post.stage = "contours" =>
        LET segments == PostSegments
            contours == connectSegments(segments)
            count == [i \in 1 .. Len(segments) |->
                         IF i \in BuildCalls(segments)
                         THEN Len(RawWalk(segments, i)) - 1 ELSE 0]
        IN  /\ ConnectFrom(segments, 1, Len(segments),
                           [contours |-> << >>, used |-> {}]).used = 1 .. Len(segments)
            /\ Len(segments) > 0 => SumSeq(count, 1) = Len(segments)
            /\ \A i, j \in 1 .. Len(contours) :
                   i # j => \A p \in Ends(contours[i]), q \in Ends(contours[j]) :
                                ~Closer(p, q, Epsilon)

(***************************************************************************)
(* Claims about the coastline (SpecPipe).                                  *)
(***************************************************************************)
\* The contours of at least 20 points among which extractCoastline chooses.
CoastCandidates == extractContours(post.hm, post.threshold, TRUE, CoastMinLength)

\* C15: extractCoastline returns one of the contours of at least 20 points,
\* of an area (shoelace formula) that none of them exceeds, and returns the
\* empty contour exactly when the heightmap has no contour of at least 20
\* points.
C15_LargestContour ==
    post.stage = "coast" =>
        LET stitched == connectSegments(PostSegments)
        IN  /\ (post.out = << >>) <=>
                   \A i \in 1 .. Len(stitched) : Len(stitched[i]) < CoastMinLength
            /\ post.out # << >> =>
                   /\ \E i \in 1 .. Len(CoastCandidates) : post.out = CoastCandidates[i]
                   /\ \A i \in 1 .. Len(CoastCandidates) :
                          calculateContourArea(post.out)
                              >= calculateContourArea(CoastCandidates[i])

\* C15 witness: of two contours of at least 20 points the second, of the
\* larger area, was returned.
C15_Witness ==
    /\ post.stage = "coast"
    /\ Len(CoastCandidates) = 2
    /\ calculateContourArea(CoastCandidates[2]) > calculateContourArea(CoastCandidates[1])
    /\ post.out = CoastCandidates[2]

(***************************************************************************)
(* Claims about the publication of islands (SpecIsland).                   *)
(***************************************************************************)
\* The number of islands of the first k iterations that were placed.
RECURSIVE PlacedUpTo(_, _)
PlacedUpTo(fate, k) ==
    IF k = 0 THEN 0
    ELSE PlacedUpTo(fate, k - 1) + (IF fate[k] = "placed" THEN 1 ELSE 0)

\* What the generator shows of a generation cycle through seaPolygon,
\* islands, allStreamlinesSimple and allStreamlines.
Visible(g) ==
    IF g.phase = "idle" THEN << >>
    ELSE <<g.sea, g.islands, g.allStreamlinesSimple, g.allStreamlines>>

C14_State ==
    gen.phase \in {"loop", "done"} =>
        /\ \A k \in 1 .. Len(gen.islands) :
              /\ Len(gen.islands[k].coastline) >= 10
              /\ calculatePolygonArea(gen.islands[k].coastline) > 2 * 1000
        /\ Len(gen.islands) = PlacedUpTo(gen.fate, Len(gen.fate))
        /\ Len(gen.allStreamlinesSimple) = Len(gen.islands)
        /\ Len(gen.allStreamlines) = Len(gen.islands)
        /\ Len(gen.streamlinesMajor) + Len(gen.streamlinesMinor) = Len(gen.islands)
        /\ \A k \in 1 .. Len(gen.islands) :
              /\ gen.allStreamlinesSimple[k] = simplifyStreamline(gen.islands[k].coastline)
              /\ gen.allStreamlines[k] =
                     complexifyStreamlineForIsland(gen.allStreamlinesSimple[k])
        /\ gen.gridMajor \cup gen.gridMinor =
              UNION {{gen.allStreamlines[k][j] : j \in 1 .. Len(gen.allStreamlines[k])} :
                        k \in 1 .. Len(gen.allStreamlines)}
        /\ Len(gen.tfIslands) <= Len(gen.islands)
        /\ \A k \in 1 .. Len(gen.tfIslands) : gen.tfIslands[k] = gen.islands[k].coastline

C14_Step ==
    ( /\ gen.phase = "loop"
      /\ Len(gen'.fate) > Len(gen.fate)
      /\ gen'.fate[Len(gen'.fate)] \in {"invalid", "threw", "nocenter"} ) =>
        /\ gen'.islands = gen.islands
        /\ gen'.allStreamlinesSimple = gen.allStreamlinesSimple
        /\ gen'.allStreamlines = gen.allStreamlines
        /\ gen'.gridMajor = gen.gridMajor /\ gen'.gridMinor = gen.gridMinor
        /\ gen'.streamlinesMajor = gen.streamlinesMajor
        /\ gen'.streamlinesMinor = gen.streamlinesMinor

\* C14: every island in islands has at least 10 coastline points and an area
\* above 1000, and islands, allStreamlinesSimple, allStreamlines, the
\* collision grids and the island list of the tensor field hold the placed
\* islands and nothing else; an island that fails the validation, or whose
\* generation throws, changes none of them.
C14_DiscardedIslands == [](C14_State) /\ [][C14_Step]_vars

\* C14 witness: of three islands the first was placed, the second failed the
\* validation and the generation of the third threw; one island is
\* published.
C14_Witness ==
    /\ gen.phase = "done"
    /\ gen.fate = <<"placed", "invalid", "threw">>
    /\ Len(gen.tfIslands) = 1 /\ Len(gen.allStreamlines) = 1

C16_State ==
    /\ gen.phase = "solid" =>
          /\ gen.returned
          /\ gen.seaFailed => gen.sea = createFullWorldSea /\ gen.warned
          /\ ~gen.seaFailed =>
                gen.sea = subtractPolygons(createFullWorldSea, gen.primaryLandmass)
          /\ gen.tfSea = gen.sea /\ gen.coastline = gen.primaryLandmass
    /\ gen.phase = "done" =>
          /\ Len(gen.fate) = gen.n
          /\ gen.tfSea = createFullWorldSea
          /\ gen.tfIslands = [k \in 1 .. Len(gen.islands) |-> gen.islands[k].coastline]
          /\ Len(gen.islands) = PlacedUpTo(gen.fate, gen.n)

C16_Step ==
    ( /\ gen.phase = "loop"
      /\ Len(gen'.fate) > Len(gen.fate)
      /\ gen'.fate[Len(gen'.fate)] = "threw" ) =>
        /\ gen'.islands = gen.islands
        /\ gen'.i = gen.i + 1
        /\ gen'.phase = IF gen'.i < gen.n THEN "loop" ELSE "done"

RECURSIVE Levels(_)
Levels(size) == IF size <= 1 THEN 0 ELSE 1 + Levels(size \div 2)

PathIterations == 3
\* params.dcirclejoin, in steps.
DCircleJoin == 2

StreamSeeds == {<<0, 0>>, <<1, 0>>}

\* Mutant: the fronts need not have separated before the path is closed.
circleJoin_Immediate(pointsEscaped, sqDistance) ==
    [pointsEscaped |-> pointsEscaped \/ sqDistance > DCircleJoin * DCircleJoin,
     join          |-> sqDistance <= DCircleJoin * DCircleJoin]

\* The test made after each pair of steps on the squared distance between the
\* fronts: they have escaped once it exceeds the threshold, and the path is
\* joined when they have escaped and the distance is within the threshold.
circleJoin(pointsEscaped, sqDistance) ==
    LET escaped == pointsEscaped \/ sqDistance > DCircleJoin * DCircleJoin
    IN  [pointsEscaped |-> escaped,
         join          |-> escaped /\ sqDistance <= DCircleJoin * DCircleJoin]

Reversed(s) == [i \in 1 .. Len(s) |-> s[Len(s) + 1 - i]]

\* The integration starts: both fronts are at the seed.
integrateStreamline(seed) ==
    /\ gen.phase = "idle"
    /\ gen' = [phase |-> "integrating", forward |-> <<seed>>, backward |-> <<seed>>,
               pointsEscaped |-> FALSE, count |-> 0, sq |-> 0, farthest |-> 0,
               streamline |-> << >>]
    /\ UNCHANGED <<ds, calls, smooth, post>>

\* One iteration: each front takes a step, the distance between the fronts
\* is tested, and the iteration is counted.  The path is the backward half
\* reversed followed by the forward half; a joined path ends on the point it
\* starts from.
integrationStep(df, db) ==
    /\ gen.phase = "integrating"
    /\ gen.count < PathIterations
    /\ LET f  == Moved(gen.forward[Len(gen.forward)], df)
           b  == Moved(gen.backward[Len(gen.backward)], db)
           fw == Append(gen.forward, f)
           bw == Append(gen.backward, b)
           sq == DistSq(f, b)
           t  == circleJoin(gen.pointsEscaped, sq)
           path == Reversed(bw) \o SubSeq(fw, 2, Len(fw))
       IN  gen' = [gen EXCEPT
                     !.forward = fw, !.backward = bw, !.sq = sq,
                     !.farthest = Max2(gen.farthest, sq),
                     !.pointsEscaped = t.pointsEscaped,
                     !.count = IF t.join THEN gen.count ELSE gen.count + 1,
                     !.phase = IF t.join THEN "joined"
                               ELSE IF gen.count + 1 < PathIterations THEN "integrating"
                               ELSE "exhausted",
                     !.streamline = IF t.join THEN Append(path, b)
                                    ELSE IF gen.count + 1 < PathIterations THEN << >>
                                    ELSE path]
    /\ UNCHANGED <<ds, calls, smooth, post>>

StreamInit ==
    /\ EngineQuiet
    /\ smooth = Unit \div 2
    /\ post = PostIdle
    /\ gen = GenIdle

StreamNext ==
    \/ \E seed \in StreamSeeds : integrateStreamline(seed)
    \/ \E df, db \in UnitSteps : integrationStep(df, db)

SpecStream == StreamInit /\ [][StreamNext]_vars

(***************************************************************************)
(* Claims about streamline integration (SpecStream).                       *)
(***************************************************************************)
JoinSq == DCircleJoin * DCircleJoin

C22_State ==
    /\ gen.phase = "joined" =>
          /\ gen.farthest > JoinSq /\ gen.sq <= JoinSq
          /\ gen.streamline[1] = gen.streamline[Len(gen.streamline)]
    /\ gen.phase = "integrating" =>
          /\ gen.count < PathIterations
          /\ gen.count = Len(gen.forward) - 1
          /\ ~(gen.farthest > JoinSq /\ gen.sq <= JoinSq)
    /\ gen.phase = "exhausted" =>
          /\ gen.count = PathIterations
          /\ ~(gen.farthest > JoinSq /\ gen.sq <= JoinSq)

C22_Step ==
    (gen.phase = "integrating" /\ gen'.phase = "joined") =>
        /\ gen.farthest > JoinSq
        /\ gen.sq > JoinSq
        /\ gen'.sq <= JoinSq

\* C22: the path is joined into a loop only at an iteration where the fronts
\* are within the circleJoin threshold after an earlier iteration left them
\* farther apart than it; fronts that never separated past the threshold
\* never join, however close they are; while the fronts have not come back
\* the integration goes on, and it stops at the maximum iteration count.
C22_CircleJoin == [](C22_State) /\ [][C22_Step]_vars

\* C22 witness: the fronts separated, came back and the path was joined; its
\* first and last points are the same.
C22_Witness ==
    /\ gen.phase = "joined"
    /\ gen.farthest > JoinSq
    /\ Len(gen.streamline) >= 5
    /\ gen.streamline[1] = gen.streamline[Len(gen.streamline)]

(***************************************************************************)
(* Specification SpecField: generation cycles of the water panel on the    *)
(* one flow field (tensorField) it shares with every generator it builds.  *)
(* A polygon set is represented by the number of the cycle that produced   *)
(* it, 0 standing for the empty set.  A generator is a record of its class,*)
(* its copy of the parameters and its own collections.                     *)
(***************************************************************************)
\* Generation cycles in a behaviour.
MaxCycles == 3
NumRivers == {0, 1, 3}
Empty == 0

\* WaterGenerator.createCoast: the sea polygon is built from the accepted
\* coastline and given to the flow field, and the coastline is registered.
superCreateCoast(g, tf, c) ==
    [g  |-> [g EXCEPT !.seaPolygon = c, !.streamlines = c, !.delegated = @ \cup {"createCoast"}],
     tf |-> [tf EXCEPT !.sea = c]]

\* WaterGenerator.createRiver: the river polygon and its bank roads are built
\* (the sea polygon hidden from the field meanwhile, then put back) and the
\* river is given to the flow field.
superCreateRiver(g, tf, c) ==
    [g  |-> [g EXCEPT !.riverPolygons = c, !.riverSecondaryRoads = c,
                      !.delegated = @ \cup {"createRiver"}],
     tf |-> [tf EXCEPT !.river = c]]

\* createCoast of the generator g in cycle c, by class: the overrides of
\* SolidLandmassGenerator (createSolidLandmasses, updateTensorFieldForLandmasses)
\* and of HeightmapIslandGenerator (createHeightmapIslands,
\* updateTensorFieldWithIslands), each falling back to the inherited method
\* when its flag is off.  placed: some island was placed; hasSetLandmasses:
\* the flow field has a setLandmasses method.
createCoast(g, tf, c, placed, hasSetLandmasses) ==
    IF g.class = "SolidLandmassGenerator" /\ g.params.useSolidLandmasses
    THEN [g  |-> [g EXCEPT !.primaryLandmass = c, !.seaPolygon = c],
          tf |-> [tf EXCEPT !.sea = c,
                            !.landmasses = IF hasSetLandmasses THEN c ELSE @]]
    ELSE IF g.class = "HeightmapIslandGenerator" /\ g.params.useHeightmapIslands
    THEN LET islands == IF placed THEN c ELSE Empty
         IN  [g  |-> [g EXCEPT !.islands = islands, !.seaPolygon = c,
                               !.streamlines = islands],
              tf |-> [tf EXCEPT !.islands = islands, !.sea = c]]
    ELSE superCreateCoast(g, tf, c)

\* Mutant: rivers are generated in island mode as in any other.
createRiver_Always(g, tf, c) == superCreateRiver(g, tf, c)

\* createRiver of the generator g in cycle c: HeightmapIslandGenerator
\* overrides it, SolidLandmassGenerator inherits it.
createRiver(g, tf, c) ==
    IF g.class = "HeightmapIslandGenerator" /\ g.params.useHeightmapIslands
    THEN [g  |-> [g EXCEPT !.riverPolygons = Empty, !.riverSecondaryRoads = Empty],
          tf |-> [tf EXCEPT !.river = Empty]]
    ELSE superCreateRiver(g, tf, c)

\* A generator as its constructor leaves it.
NewGenerator(class, params) ==
    [class |-> class, params |-> params, seaPolygon |-> Empty, islands |-> Empty,
     primaryLandmass |-> Empty, riverPolygons |-> Empty,
     riverSecondaryRoads |-> Empty, streamlines |-> Empty, delegated |-> {}]

\* The check boxes of the Generation Mode folder.
FieldSetMode(flag, value) ==
    /\ gen.phase = "field"
    /\ gen.params[flag] # value
    /\ gen' = [gen EXCEPT !.params[flag] = value]
    /\ UNCHANGED <<ds, calls, smooth, post>>

\* generateRoads, first part: this.streamlines = this.createWaterGenerator()
FieldNewGenerator ==
    /\ gen.phase = "field"
    /\ gen.cycle < MaxCycles
    /\ gen' = [gen EXCEPT !.phase = "made", !.cycle = gen.cycle + 1,
                          !.streamlines =
                              NewGenerator(createWaterGenerator(gen.params), gen.params)]
    /\ UNCHANGED <<ds, calls, smooth, post>>

\* generateRoads, second part: this.streamlines.createCoast()
FieldCreateCoast(placed) ==
    /\ gen.phase = "made"
    /\ LET r == createCoast(gen.streamlines, gen.tensorField, gen.cycle, placed,
                            gen.hasSetLandmasses)
       IN  gen' = [gen EXCEPT !.phase = "coast", !.streamlines = r.g,
                              !.tensorField = r.tf, !.beforeRiver = r]
    /\ UNCHANGED <<ds, calls, smooth, post>>

\* generateRoads, last part: this.streamlines.createRiver(), and the cycle is over.
FieldCreateRiver ==
    /\ gen.phase = "coast"
    /\ LET r == createRiver(gen.streamlines, gen.tensorField, gen.cycle)
       IN  gen' = [gen EXCEPT !.phase = "field", !.streamlines = r.g,
                              !.tensorField = r.tf]
    /\ UNCHANGED <<ds, calls, smooth, post>>

\* The panel as constructed: continental mode, a WaterGenerator that has
\* generated nothing, an empty flow field.
FieldInit ==
    /\ EngineQuiet
    /\ smooth = Unit \div 2
    /\ post = PostIdle
    /\ \E numRivers \in NumRivers, hasSetLandmasses \in BOOLEAN :
         LET params == [useSolidLandmasses |-> FALSE, useHeightmapIslands |-> FALSE,
                        numRivers |-> numRivers]
             none == NewGenerator(createWaterGenerator(params), params)
             tf0  == [sea |-> Empty, islands |-> Empty, landmasses |-> Empty,
                      river |-> Empty]
         IN  gen = [phase |-> "field", params |-> params, cycle |-> 0,
                    hasSetLandmasses |-> hasSetLandmasses,
                    streamlines |-> none, tensorField |-> tf0,
                    beforeRiver |-> [g |-> none, tf |-> tf0]]

FieldNext ==
    \/ \E flag \in {"useSolidLandmasses", "useHeightmapIslands"}, value \in BOOLEAN :
          FieldSetMode(flag, value)
    \/ FieldNewGenerator
    \/ \E placed \in BOOLEAN : FieldCreateCoast(placed)
    \/ FieldCreateRiver

SpecField == FieldInit /\ [][FieldNext]_vars

C24_NoIslandRiver ==
    /\ (/\ gen.phase = "field" /\ gen.cycle > 0
        /\ gen.streamlines.class = "HeightmapIslandGenerator") =>
          /\ gen.streamlines.riverPolygons = Empty
          /\ gen.streamlines.riverSecondaryRoads = Empty
          /\ gen.tensorField.river = Empty
          /\ gen.streamlines.delegated = {}
          /\ \A f \in {"islands", "seaPolygon", "streamlines", "primaryLandmass"} :
                gen.streamlines[f] = gen.beforeRiver.g[f]
          /\ \A slot \in {"sea", "islands", "landmasses"} :
                gen.tensorField[slot] = gen.beforeRiver.tf[slot]
    /\ gen.phase \in {"field", "made", "coast"} =>
          \A solid \in BOOLEAN, placed \in BOOLEAN :
             LET params == [gen.params EXCEPT !.useHeightmapIslands = FALSE,
                                              !.useSolidLandmasses = solid]
                 g == [gen.streamlines EXCEPT !.class = "HeightmapIslandGenerator",
                                              !.params = params]
                 c == gen.cycle + 1
             IN  /\ createCoast(g, gen.tensorField, c, placed, gen.hasSetLandmasses)
                      = superCreateCoast(g, gen.tensorField, c)
                 /\ createRiver(g, gen.tensorField, c)
                      = superCreateRiver(g, gen.tensorField, c)

\* C24 witness: an island cycle with numRivers = 3 is over, islands placed;
\* the flow field held the river of the cycle before until createRiver ran.
C24_Witness ==
    /\ gen.phase = "field" /\ gen.cycle = 2
    /\ gen.streamlines.class = "HeightmapIslandGenerator"
    /\ gen.params.numRivers = 3
    /\ gen.streamlines.islands = 2
    /\ gen.beforeRiver.tf.river = 1
    /\ gen.tensorField.river = Empty
    /\ gen.tensorField.sea = 2

(***************************************************************************)
(* Specification SpecSize: the grid size createSingleHeightmapIsland       *)
(* chooses for an island and hands to generateHeightmap.  Fractions are in *)
(* units of 1/Unit.                                                        *)
(***************************************************************************)
\* Largest params.baseSize tried.
MaxBaseSize == 400
\* params.sizeVariation: none, the default 0.3, and 1.
SizeVariations == {0, (3 * Unit) \div 10, Unit}
\* Values of Math.random(): 0, 1/4, 1/2, 3/4 and the largest below 1.
Randoms == {0, Unit \div 4, Unit \div 2, (3 * Unit) \div 4, Unit - 1}

\* Math.round(num / den) for den > 0: the integer nearest to the quotient,
\* halves going up.
MathRound(num, den) == (2 * num + den) \div (2 * den)

\* floor(log2(n)) for n >= 1
RECURSIVE FloorLog2(_)
FloorLog2(n) == IF n < 2 THEN 0 ELSE 1 + FloorLog2(n \div 2)

\* Math.pow(2, Math.round(Math.log2(n))) for an integer n >= 1: log2(n) is at
\* least k + 1/2 exactly when n * n >= 2^(2k + 1).
nearestPowerOfTwo(n) ==
    LET k == FloorLog2(n)
    IN  IF n * n >= 2^(2 * k + 1) THEN 2^(k + 1) ELSE 2^k

\* The size computed for an island and the answer of generateHeightmap to it.
ChooseIslandSize(baseSize, paramSizeVariation, random) ==
    /\ gen.phase = "idle"
    /\ LET sizeVariation == ((random - Unit \div 2) * 2 * paramSizeVariation) \div Unit
           actualSize == MathRound(baseSize * (Unit + sizeVariation), Unit)
           size == nearestPowerOfTwo(Max2(64, actualSize))
       IN  gen' = [phase |-> "sized", baseSize |-> baseSize,
                   sizeVariation |-> sizeVariation, actualSize |-> actualSize,
                   size |-> size, accepted |-> isPowerOfTwo(size)]
    /\ UNCHANGED <<ds, calls, smooth, post>>

SizeInit ==
    /\ EngineQuiet
    /\ smooth = Unit \div 2
    /\ post = PostIdle
    /\ gen = GenIdle

SizeNext ==
    \E baseSize \in 1 .. MaxBaseSize, v \in SizeVariations, random \in Randoms :
        ChooseIslandSize(baseSize, v, random)

SpecSize == SizeInit /\ [][SizeNext]_vars

(***************************************************************************)
(* Claims about the island grid size (SpecSize).                           *)
(***************************************************************************)
PowersOfTwo == {2^k : k \in 0 .. 12}

\* The size is a power of two of at least 64 that generateHeightmap accepts.
AcceptedSize ==
    gen.phase = "sized" =>
        gen.size \in PowersOfTwo /\ gen.size >= 64 /\ gen.accepted

\* C25: the size handed to generateHeightmap is a power of two, at least 64,
\* accepted by generateHeightmap, and no power of two is nearer to
\* max(64, round(baseSize * (1 + variation))) than it is.
C25_NearestPowerOfTwo ==
    gen.phase = "sized" =>
        /\ AcceptedSize
        /\ \A q \in PowersOfTwo :
              Abs(Max2(64, gen.actualSize) - gen.size)
                  <= Abs(Max2(64, gen.actualSize) - q)

(***************************************************************************)
(* Claims about the island profiles (SpecPipe).                            *)
(***************************************************************************)
PostSize == GridLen(post.hm) - 1

\* Within innerRadius = 0.3 * center of the grid centre.
InLagoon(x, y) == 10 * Distance2(x, y, PostSize) < 3 * PostSize * Unit

\* On the rim of the island: in the outer ring of the mask, past 70% of its radius.
OnRim(x, y) ==
    /\ NormalizedDistance(x, y, PostSize) > (7 * Unit) \div 10
    /\ NormalizedDistance(x, y, PostSize) <= Unit

\* The atoll half of C26.
C26_Lagoon ==
    (post.stage = "coast" /\ post.profile = "atoll") =>
        \A x, y \in 0 .. PostSize : InLagoon(x, y) => post.hm[x][y] < post.threshold

\* The volcano half of C26.
C26_Peak ==
    (post.stage = "coast" /\ post.profile = "volcanic") =>
        \A x, y \in 0 .. PostSize :
            OnRim(x, y) => post.hm[PostSize \div 2][PostSize \div 2] > post.hm[x][y]

\* C26: in atoll mode, after the profile, the mask and the normalisation to
\* (-1, 1), every cell within the inner radius of the grid centre is below
\* the sea level the coastline is extracted at; in volcano mode the centre
\* cell is higher than every cell of the rim.
C26_ProfileShape == C26_Lagoon /\ C26_Peak

(***************************************************************************)
(* Claims about the peninsula (SpecIsland, solid-landmass mode).           *)
(***************************************************************************)
\* The point lies on the named edge of the world rectangle.
OnWorldEdge(p, edge) ==
    CASE edge = "north" -> p[2] = WorldDim
      [] edge = "south" -> p[2] = 0
      [] edge = "east"  -> p[1] = WorldDim
      [] edge = "west"  -> p[1] = 0

\* C27: for a peninsula the first four points of the landmass are a
\* rectangle with a side (two consecutive corners) on the world edge that
\* was chosen, whichever it is, and the points after them are the body's.
C27_PeninsulaBase ==
    (gen.phase = "solid" /\ gen.landmassType = "peninsula") =>
        LET polygon == gen.primaryLandmass
            base == SubSeq(polygon, 1, 4)
        IN  /\ Len(polygon) = 4 + 32
            /\ \E pattern \in RandomPatterns :
                  SubSeq(polygon, 5, Len(polygon))
                      = createOrganicCircle(WorldCenter, BaseRadius(30), pattern)
            /\ \E k \in 1 .. 4 :
                  /\ OnWorldEdge(base[k], gen.edgeConnection)
                  /\ OnWorldEdge(base[(k % 4) + 1], gen.edgeConnection)

(***************************************************************************)
(* Specification SpecValley: HeightmapIslandGenerator.findValleys on small *)
(* heightmaps of ValleyW x ValleyH cells.  A cell is a pair <<x, y>>.      *)
(***************************************************************************)
ValleyW == 7
ValleyH == 3
ValleyCells == {<<x, y>> : x \in 0 .. ValleyW - 1, y \in 0 .. ValleyH - 1}

\* The heightmaps: low ground (0) with walls (1.0) along one or two columns,
\* the first open at one row or none, and one more cell of the first row raised to
\* 1.0 or to 0.3.
ValleyGrids ==
    {[x \in 0 .. ValleyW - 1 |-> [y \in 0 .. ValleyH - 1 |->
            IF <<x, y>> = <<e, 0>> THEN v
            ELSE IF (x = w[1] /\ y \notin open) \/ x = w[2] THEN Unit
            ELSE 0]]
        : w \in {p \in (0 .. ValleyW - 1) \X (0 .. ValleyW - 1) : p[1] <= p[2]},
          open \in {{}} \cup {{r} : r \in 0 .. ValleyH - 1},
          e \in 0 .. ValleyW - 1, v \in {Unit, (3 * Unit) \div 10}}

\* One iteration of the while loop of floodFillValley on the record
\* [stack, visited, valley]: the top of the stack is popped; a cell out of the
\* grid, visited or not below maxHeight is skipped; any other is marked, added
\* to the valley, and its four neighbours are pushed.  With an empty stack
\* the loop has ended and nothing changes.
FloodStep(heightmap, maxHeight, st) ==
    IF st.stack = << >> THEN st
    ELSE LET current == st.stack[Len(st.stack)]
             rest == SubSeq(st.stack, 1, Len(st.stack) - 1)
             x == current[1]
             y == current[2]
         IN  IF x < 0 \/ x >= GridLen(heightmap) \/ y < 0 \/ y >= GridLen(heightmap[0])
             THEN [st EXCEPT !.stack = rest]
             ELSE IF current \in st.visited \/ heightmap[x][y] >= maxHeight
             THEN [st EXCEPT !.stack = rest]
             ELSE [stack   |-> rest \o << <<x - 1, y>>, <<x + 1, y>>,
                                          <<x, y - 1>>, <<x, y + 1>> >>,
                   visited |-> st.visited \cup {current},
                   valley  |-> Append(st.valley, current)]

\* The loop, for at most n iterations: it ends when the stack is empty (the
\* count is halved to keep the evaluation shallow).
RECURSIVE FloodRun(_, _, _, _)
FloodRun(heightmap, maxHeight, st, n) ==
    IF n <= 0 \/ st.stack = << >> THEN st
    ELSE IF n = 1 THEN FloodStep(heightmap, maxHeight, st)
    ELSE LET first == FloodRun(heightmap, maxHeight, st, n \div 2)
         IN  IF first = first
             THEN FloodRun(heightmap, maxHeight, first, n - n \div 2)
             ELSE first

\* floodFillValley: the valley of the start cell, the cells marked visited,
\* and what is left on the stack if the loop has not ended after
\* 4 * cells + 1 iterations (each marked cell pushes four).
floodFillValley(heightmap, visited, startX, startY, maxHeight) ==
    FloodRun(heightmap, maxHeight,
             [stack |-> << <<startX, startY>> >>, visited |-> visited, valley |-> << >>],
             4 * GridLen(heightmap) * GridLen(heightmap[0]) + 1)

\* The body of the double loop of findValleys for cell number i (x outer, y
\* inner) on the record [visited, valleys, pending]: an unvisited cell below
\* maxHeight is flood-filled, and its valley is kept if it has more than
\* minimum cells.
ValleyCell(heightmap, maxHeight, i, acc, minimum) ==
    LET height == GridLen(heightmap[0])
        x == i \div height
        y == i % height
    IN  IF <<x, y>> \notin acc.visited /\ heightmap[x][y] < maxHeight
        THEN LET r == floodFillValley(heightmap, acc.visited, x, y, maxHeight)
             IN  [visited |-> r.visited,
                  valleys |-> IF Len(r.valley) > minimum
                              THEN Append(acc.valleys, r.valley) ELSE acc.valleys,
                  pending |-> acc.pending + Len(r.stack)]
        ELSE acc

\* The cells lo .. hi of the double loop, in order.
RECURSIVE ValleysFrom(_, _, _, _, _, _)
ValleysFrom(heightmap, maxHeight, lo, hi, acc, minimum) ==
    IF lo > hi THEN acc
    ELSE IF lo = hi THEN ValleyCell(heightmap, maxHeight, lo, acc, minimum)
    ELSE LET mid   == (lo + hi) \div 2
             first == ValleysFrom(heightmap, maxHeight, lo, mid, acc, minimum)
         IN  IF first = first
             THEN ValleysFrom(heightmap, maxHeight, mid + 1, hi, first, minimum)
             ELSE first

\* Mutant: valleys of five cells are kept.
findValleys_KeepFive(heightmap, maxHeight) ==
    ValleysFrom(heightmap, maxHeight, 0, GridLen(heightmap) * GridLen(heightmap[0]) - 1,
                [visited |-> {}, valleys |-> << >>, pending |-> 0], 4)

\* findValleys(heightmap, maxHeight): valley.length > 5
findValleys(heightmap, maxHeight) ==
    ValleysFrom(heightmap, maxHeight, 0, GridLen(heightmap) * GridLen(heightmap[0]) - 1,
                [visited |-> {}, valleys |-> << >>, pending |-> 0], 5)

\* extractIslandFeatures: findValleys(heightmap, params.seaLevel + 0.3)
FindValleys(seaLevel) ==
    /\ post.stage = "raw"
    /\ LET maxHeight == seaLevel + (3 * Unit) \div 10
           r == findValleys(post.hm, maxHeight)
       IN  /\ post' = [post EXCEPT !.stage = "valleys", !.threshold = maxHeight,
                                   !.out = r.valleys]
           /\ gen' = [phase |-> "valleys", pending |-> r.pending]
    /\ UNCHANGED <<ds, calls, smooth>>

ValleyInit ==
    /\ EngineQuiet
    /\ smooth = Unit \div 2
    /\ \E g \in ValleyGrids : post = [PostIdle EXCEPT !.stage = "raw", !.hm = g]
    /\ gen = GenIdle

ValleyNext == \E seaLevel \in SeaLevels : FindValleys(seaLevel)

SpecValley == ValleyInit /\ [][ValleyNext]_vars

(***************************************************************************)
(* Claims about findValleys (SpecValley).                                  *)
(***************************************************************************)
Low(c) == post.hm[c[1]][c[2]] < post.threshold
Adjacent(c, d) == Abs(c[1] - d[1]) + Abs(c[2] - d[2]) = 1

\* The cells of S reachable from the cells of seen by steps between adjacent cells.
RECURSIVE Reach(_, _)
Reach(S, seen) ==
    LET more == {c \in S \ seen : \E d \in seen : Adjacent(c, d)}
    IN  IF more = {} THEN seen ELSE Reach(S, seen \cup more)

\* The 4-connected component of the low cell c.
Component(c) == Reach({d \in ValleyCells : Low(d)}, {c})

CellsOf(valley) == {valley[k] : k \in 1 .. Len(valley)}

\* C28: findValleys returns, every flood fill having emptied its stack; no
\* cell occurs twice in a cluster or in two
\* clusters; each cluster has more than 5 cells, all below the threshold, and
\* is exactly one 4-connected component of the low cells; and every low cell
\* whose component has more than 5 cells is in a cluster.
C28_Valleys ==
    post.stage = "valleys" =>
        LET valleys == post.out
        IN  /\ gen.pending = 0
            /\ \A k \in 1 .. Len(valleys) :
                  /\ Len(valleys[k]) > 5
                  /\ Cardinality(CellsOf(valleys[k])) = Len(valleys[k])
                  /\ CellsOf(valleys[k]) \subseteq ValleyCells
                  /\ \A c \in CellsOf(valleys[k]) : Low(c)
                  /\ CellsOf(valleys[k]) = Component(valleys[k][1])
            /\ \A j, k \in 1 .. Len(valleys) :
                  j # k => CellsOf(valleys[j]) \cap CellsOf(valleys[k]) = {}
            /\ \A c \in ValleyCells :
                  (Low(c) /\ \A k \in 1 .. Len(valleys) : c \notin CellsOf(valleys[k]))
                      => Cardinality(Component(c)) <= 5

\* C28 witness: two valleys were returned, and a component of low cells of
\* five cells or fewer was left out.
C28_Witness ==
    /\ post.stage = "valleys"
    /\ Len(post.out) = 2
    /\ \E c \in ValleyCells :
          /\ Low(c)
          /\ \A k \in 1 .. 2 : c \notin CellsOf(post.out[k])

(***************************************************************************)
(* Specification SpecModel: the STL export of ModelGenerator.  A polygon   *)
(* is [kind, i, n]: the list it comes from, its place there and its number *)
(* of points; a building adds its height.  The generator is the record     *)
(* gen.  The specification is fair to the frame loop of Main.update, which *)
(* calls update in every frame, and to the completion of the zip.          *)
(***************************************************************************)
\* Longest list of blocks and of buildings.
MaxItems == 2

\* The numbers of points of the polygons of a list of at most max polygons
PolygonLens(max, ns) == UNION {[1 .. len -> ns] : len \in 0 .. max}

\* The list of polygons of a kind with these numbers of points
Polygons(kind, lens) == [i \in 1 .. Len(lens) |-> [kind |-> kind, i |-> i, n |-> lens[i]]]

\* polygonToMesh(polygon, height): no mesh for fewer than 3 points (written as
\* the empty list), otherwise the mesh of the polygon, flat for height 0
polygonToMesh(polygon, height) ==
    IF polygon.n < 3 THEN << >> ELSE <<[of |-> polygon, depth |-> height]>>

\* zip.file(name, stl) when the mesh exists
ZipFile(zip, mesh, name) == IF mesh = << >> THEN zip ELSE zip \cup {name}

\* new ModelGenerator(ground, sea, coastline, river, mainRoads, majorRoads,
\* minorRoads, buildings, blocks)
NewModelGenerator(water, mainRoads, majorRoads, minorRoads, buildings, blocks) ==
    [phase |-> "model", state |-> "WAITING",
     ground |-> [kind |-> "ground", i |-> 1, n |-> 4],
     sea |-> [kind |-> "sea", i |-> 1, n |-> water],
     coastline |-> [kind |-> "coastline", i |-> 1, n |-> water],
     river |-> [kind |-> "river", i |-> 1, n |-> water],
     mainRoads |-> mainRoads, majorRoads |-> majorRoads, minorRoads |-> minorRoads,
     buildings |-> buildings, blocks |-> blocks,
     polygonsToProcess |-> << >>, buildingsToProcess |-> << >>,
     roadsMeshes |-> << >>, blocksMeshes |-> << >>, buildingsMeshes |-> << >>,
     zip |-> {}, started |-> FALSE,
     \* what the run has done: the polygons popped, the zip generations under
     \* way, the calls of resolve, the state the last update was entered in
     \* and its answer
     processed |-> << >>, generating |-> 0, resolved |-> 0,
     entry |-> "none", ret |-> "none"]

\* update() with ADD_COASTLINE going on to ADD_ROADS
update_SkipRiver(g) ==
    LET at == [g EXCEPT !.entry = g.state]
        last(s) == s[Len(s)]
        front(s) == SubSeq(s, 1, Len(s) - 1)
    IN  CASE g.state = "WAITING" -> [at EXCEPT !.ret = FALSE]
          [] g.state = "SUBTRACT_OCEAN" ->
                [at EXCEPT !.zip = ZipFile(ZipFile(@, polygonToMesh(g.ground, 0), "model/domain.stl"),
                                           polygonToMesh(g.sea, 0), "model/sea.stl"),
                           !.state = "ADD_COASTLINE", !.ret = TRUE]
          [] g.state = "ADD_COASTLINE" ->
                [at EXCEPT !.zip = ZipFile(@, polygonToMesh(g.coastline, 0), "model/coastline.stl"),
                           !.state = "ADD_ROADS", !.ret = TRUE]
          [] g.state = "SUBTRACT_RIVER" ->
                [at EXCEPT !.zip = ZipFile(@, polygonToMesh(g.river, 0), "model/river.stl"),
                           !.state = "ADD_ROADS",
                           !.polygonsToProcess = g.minorRoads \o g.majorRoads \o g.mainRoads,
                           !.ret = TRUE]
          [] g.state = "ADD_ROADS" ->
                IF g.polygonsToProcess = << >>
                THEN [at EXCEPT !.zip = @ \cup {"model/roads.stl"},
                                !.state = "ADD_BLOCKS",
                                !.polygonsToProcess = g.blocks, !.ret = TRUE]
                ELSE [at EXCEPT !.polygonsToProcess = front(@),
                                !.processed = Append(@, last(g.polygonsToProcess)),
                                !.roadsMeshes = @ \o polygonToMesh(last(g.polygonsToProcess), 0),
                                !.ret = TRUE]
          [] g.state = "ADD_BLOCKS" ->
                IF g.polygonsToProcess = << >>
                THEN [at EXCEPT !.zip = @ \cup {"model/blocks.stl"},
                                !.state = "ADD_BUILDINGS",
                                !.buildingsToProcess = g.buildings, !.ret = TRUE]
                ELSE [at EXCEPT !.polygonsToProcess = front(@),
                                !.processed = Append(@, last(g.polygonsToProcess)),
                                !.blocksMeshes = @ \o polygonToMesh(last(g.polygonsToProcess), 1),
                                !.ret = TRUE]
          [] g.state = "ADD_BUILDINGS" ->
                IF g.buildingsToProcess = << >>
                THEN [at EXCEPT !.zip = @ \cup {"model/buildings.stl"},
                                !.state = "CREATE_ZIP", !.ret = TRUE]
                ELSE [at EXCEPT !.buildingsToProcess = front(@),
                                !.processed = Append(@, last(g.buildingsToProcess)),
                                !.buildingsMeshes =
                                    @ \o polygonToMesh(last(g.buildingsToProcess),
                                                       last(g.buildingsToProcess).height),
                                !.ret = TRUE]
          [] g.state = "CREATE_ZIP" ->
                [at EXCEPT !.generating = @ + 1, !.state = "WAITING", !.ret = TRUE]

\* update(): one step of the export; the answer is the field ret
update(g) ==
    LET at == [g EXCEPT !.entry = g.state]
        last(s) == s[Len(s)]
        front(s) == SubSeq(s, 1, Len(s) - 1)
    IN  CASE g.state = "WAITING" -> [at EXCEPT !.ret = FALSE]
          [] g.state = "SUBTRACT_OCEAN" ->
                [at EXCEPT !.zip = ZipFile(ZipFile(@, polygonToMesh(g.ground, 0), "model/domain.stl"),
                                           polygonToMesh(g.sea, 0), "model/sea.stl"),
                           !.state = "ADD_COASTLINE", !.ret = TRUE]
          [] g.state = "ADD_COASTLINE" ->
                [at EXCEPT !.zip = ZipFile(@, polygonToMesh(g.coastline, 0), "model/coastline.stl"),
                           !.state = "SUBTRACT_RIVER", !.ret = TRUE]
          [] g.state = "SUBTRACT_RIVER" ->
                [at EXCEPT !.zip = ZipFile(@, polygonToMesh(g.river, 0), "model/river.stl"),
                           !.state = "ADD_ROADS",
                           !.polygonsToProcess = g.minorRoads \o g.majorRoads \o g.mainRoads,
                           !.ret = TRUE]
          [] g.state = "ADD_ROADS" ->
                IF g.polygonsToProcess = << >>
                THEN [at EXCEPT !.zip = @ \cup {"model/roads.stl"},
                                !.state = "ADD_BLOCKS",
                                !.polygonsToProcess = g.blocks, !.ret = TRUE]
                ELSE [at EXCEPT !.polygonsToProcess = front(@),
                                !.processed = Append(@, last(g.polygonsToProcess)),
                                !.roadsMeshes = @ \o polygonToMesh(last(g.polygonsToProcess), 0),
                                !.ret = TRUE]
          [] g.state = "ADD_BLOCKS" ->
                IF g.polygonsToProcess = << >>
                THEN [at EXCEPT !.zip = @ \cup {"model/blocks.stl"},
                                !.state = "ADD_BUILDINGS",
                                !.buildingsToProcess = g.buildings, !.ret = TRUE]
                ELSE [at EXCEPT !.polygonsToProcess = front(@),
                                !.processed = Append(@, last(g.polygonsToProcess)),
                                !.blocksMeshes = @ \o polygonToMesh(last(g.polygonsToProcess), 1),
                                !.ret = TRUE]
          [] g.state = "ADD_BUILDINGS" ->
                IF g.buildingsToProcess = << >>
                THEN [at EXCEPT !.zip = @ \cup {"model/buildings.stl"},
                                !.state = "CREATE_ZIP", !.ret = TRUE]
                ELSE [at EXCEPT !.buildingsToProcess = front(@),
                                !.processed = Append(@, last(g.buildingsToProcess)),
                                !.buildingsMeshes =
                                    @ \o polygonToMesh(last(g.buildingsToProcess),
                                                       last(g.buildingsToProcess).height),
                                !.ret = TRUE]
          [] g.state = "CREATE_ZIP" ->
                [at EXCEPT !.generating = @ + 1, !.state = "WAITING", !.ret = TRUE]

\* getSTL(), called once on the new generator by downloadSTL: keeps resolve,
\* starts the zip with the README and the ground mesh, and sets the state
GetSTL ==
    /\ gen.phase = "model"
    /\ ~gen.started
    /\ gen' = [gen EXCEPT !.started = TRUE, !.zip = {"model/README.txt"},
                          !.state = "SUBTRACT_OCEAN"]
    /\ UNCHANGED <<ds, calls, smooth, post>>

\* Main.update: a frame calls update() of the generator (the first call of its
\* loop; the later ones are further steps of this action)
Update ==
    /\ gen.phase = "model"
    /\ gen.started
    /\ gen' = update(gen)
    /\ UNCHANGED <<ds, calls, smooth, post>>

\* zip.generateAsync(...).then(blob => this.resolve(blob)): the zip is done
ZipGenerated ==
    /\ gen.phase = "model"
    /\ gen.generating > 0
    /\ gen' = [gen EXCEPT !.generating = @ - 1, !.resolved = @ + 1]
    /\ UNCHANGED <<ds, calls, smooth, post>>

ModelInit ==
    /\ EngineQuiet
    /\ smooth = Unit \div 2
    /\ post = PostIdle
    /\ \E water \in {0, 4},
          mainLens \in PolygonLens(1, {4}),
          majorLens \in PolygonLens(1, {4}),
          minorLens \in PolygonLens(1, {2, 4}),
          blockLens \in PolygonLens(MaxItems, {2, 4}),
          buildingLens \in PolygonLens(MaxItems, {4}) :
        gen = NewModelGenerator(water,
                  Polygons("main", mainLens), Polygons("major", majorLens),
                  Polygons("minor", minorLens),
                  [i \in 1 .. Len(buildingLens) |->
                      [kind |-> "building", i |-> i, n |-> buildingLens[i], height |-> 10 * i]],
                  Polygons("block", blockLens))

ModelNext == GetSTL \/ Update \/ ZipGenerated

SpecModel ==
    ModelInit /\ [][ModelNext]_vars /\ WF_vars(GetSTL) /\ WF_vars(Update) /\ WF_vars(ZipGenerated)

(***************************************************************************)
(* Claims about the STL export (SpecModel).                                *)
(***************************************************************************)
\* The state that follows s in the export
NextState(s) ==
    CASE s = "SUBTRACT_OCEAN" -> "ADD_COASTLINE"
      [] s = "ADD_COASTLINE" -> "SUBTRACT_RIVER"
      [] s = "SUBTRACT_RIVER" -> "ADD_ROADS"
      [] s = "ADD_ROADS" -> "ADD_BLOCKS"
      [] s = "ADD_BLOCKS" -> "ADD_BUILDINGS"
      [] s = "ADD_BUILDINGS" -> "CREATE_ZIP"
      [] s = "CREATE_ZIP" -> "WAITING"
      [] OTHER -> "none"

\* The members of a list
Items(s) == {s[i] : i \in 1 .. Len(s)}

\* Everything the export has to process
ToProcess ==
    Items(gen.minorRoads) \cup Items(gen.majorRoads) \cup Items(gen.mainRoads)
        \cup Items(gen.blocks) \cup Items(gen.buildings)

\* The export is over: update has been through CREATE_ZIP
Exported == gen.started /\ gen.state = "WAITING"

C29_State ==
    gen.phase = "model" =>
        /\ \A i, j \in 1 .. Len(gen.processed) :
              gen.processed[i] = gen.processed[j] => i = j
        /\ Items(gen.processed) \subseteq ToProcess
        /\ gen.resolved + gen.generating <= 1
        /\ Exported =>
              /\ Items(gen.processed) = ToProcess
              /\ gen.resolved + gen.generating = 1
        /\ ~Exported => gen.resolved + gen.generating = 0
        /\ gen.entry # "none" => gen.ret = (gen.entry # "WAITING")

C29_Step ==
    gen.phase = "model" =>
        /\ gen'.state # gen.state =>
              \/ gen'.state = NextState(gen.state)
              \/ ~gen.started /\ gen'.started /\ gen'.state = "SUBTRACT_OCEAN"
        /\ gen'.processed # gen.processed =>
              /\ Len(gen'.processed) = Len(gen.processed) + 1
              /\ gen'.state = gen.state

C29_Done == Exported /\ gen.resolved = 1

\* C29: after getSTL the calls of update go through SUBTRACT_OCEAN,
\* ADD_COASTLINE, SUBTRACT_RIVER, ADD_ROADS, ADD_BLOCKS, ADD_BUILDINGS,
\* CREATE_ZIP and WAITING in this order, one state at a time and never back;
\* each road, block and building is popped exactly once; update answers false
\* exactly when it is entered in WAITING; and the export ends in WAITING with
\* resolve called once, and never more than once.
C29_UpdateOrder == [](C29_State) /\ [][C29_Step]_vars /\ <>[](C29_Done)

\* C29 witness: an export that is over, resolved, after a road, a block too
\* short for a mesh and a building were processed, and update has answered
\* false since
C29_Witness ==
    /\ gen.phase = "model"
    /\ C29_Done
    /\ gen.ret = FALSE
    /\ \E k \in {"minor", "major", "main"} : \E p \in Items(gen.processed) : p.kind = k
    /\ \E p \in Items(gen.processed) : p.kind = "block" /\ p.n < 3
    /\ \E p \in Items(gen.processed) : p.kind = "building"

(***************************************************************************)
(* Specification SpecHull: computeConvexHull on lists of points with whole *)
(* coordinates, x in 0 .. 1 and y in 0 .. HullGrid, repeated and collinear *)
(* points included.                                                        *)
(***************************************************************************)
\* Largest y coordinate of an input point.
HullGrid == 2
\* Longest list of input points.
MaxHullPoints == 4

HullPoints == (0 .. 1) \X (0 .. HullGrid)
HullInputs == UNION {[1 .. n -> HullPoints] : n \in 0 .. MaxHullPoints}

\* The index computeConvexHull starts from: the first point of least x
Leftmost(points) ==
    CHOOSE i \in 1 .. Len(points) :
        /\ \A j \in 1 .. Len(points) : points[i][1] <= points[j][1]
        /\ \A j \in 1 .. i - 1 : points[j][1] > points[i][1]

\* Whether the do-while loop of computeConvexHull comes back to leftmost.  The
\* next index depends on the current one only, so a walk that has not come
\* back after Len(points) rounds is on a cycle without leftmost and never
\* comes back.
RECURSIVE WrapReturns(_, _, _, _)
WrapReturns(points, leftmost, current, rounds) ==
    LET next == WrapNext(points, current, 1, (current % Len(points)) + 1)
    IN  IF next = leftmost THEN TRUE
        ELSE IF rounds >= Len(points) THEN FALSE
        ELSE WrapReturns(points, leftmost, next, rounds + 1)

\* computeConvexHull(points) as createOrganicShape calls it: the hull, or its
\* first Len(points) points when the loop does not end
ComputeConvexHull(points) ==
    /\ gen.phase = "idle"
    /\ gen' = [phase |-> "hull", points |-> points,
               returns |-> Len(points) < 3
                             \/ WrapReturns(points, Leftmost(points), Leftmost(points), 1),
               hull |-> computeConvexHull(points)]
    /\ UNCHANGED <<ds, calls, smooth, post>>

HullInit ==
    /\ EngineQuiet
    /\ smooth = Unit \div 2
    /\ post = PostIdle
    /\ gen = GenIdle

HullNext == \E points \in HullInputs : ComputeConvexHull(points)

SpecHull == HullInit /\ [][HullNext]_vars

(***************************************************************************)
(* Claims about the convex hull (SpecHull).                                *)
(***************************************************************************)
\* The hull comes back for every input.
HullTerminates == gen.phase = "hull" => gen.returns

\* The hull of 3 or more points has no point twice.
HullDistinct ==
    (gen.phase = "hull" /\ Len(gen.points) >= 3) =>
        \A i, j \in 1 .. Len(gen.hull) : gen.hull[i] = gen.hull[j] => i = j

\* The hull turns one way only, and every input point is on the inner side of
\* every edge or on its line.
HullConvex ==
    (gen.phase = "hull" /\ Len(gen.points) >= 3) =>
        LET hull == gen.hull
            n == Len(hull)
            succ(k) == (k % n) + 1
        IN  \E side \in {1, 2} :
                /\ \A k \in 1 .. n :
                      orientation(hull[k], hull[succ(k)], hull[succ(succ(k))]) \in {0, side}
                /\ \A k \in 1 .. n : \A i \in 1 .. Len(gen.points) :
                      orientation(hull[k], hull[succ(k)], gen.points[i]) \in {0, side}

\* C30: computeConvexHull ends for every list of 3 or more points and answers
\* distinct points of the input that turn one way and form a convex polygon
\* with every input point inside or on it; shorter lists come back unchanged.
C30_ConvexHull ==
    gen.phase = "hull" =>
        /\ HullTerminates
        /\ Len(gen.points) < 3 => gen.hull = gen.points
        /\ Len(gen.points) >= 3 =>
              /\ \A k \in 1 .. Len(gen.hull) :
                    \E i \in 1 .. Len(gen.points) : gen.hull[k] = gen.points[i]
              /\ HullDistinct
              /\ HullConvex

====
